---------------------------- MODULE Spec2Model ----------------------------
(***************************************************************************)
(* A model of the distributed grid / particle data plane of IPPL:          *)
(*   - HaloCells: fillHalo / accumulateHalo over the face, edge and vertex *)
(*     neighbor tables of a FieldLayout (src/src/Field/HaloCells.hpp),     *)
(*   - ParticleAttrib / ParticleBase: creation of particles and ID         *)
(*     issuance (src/src/Particle/ParticleAttrib.hpp, ParticleBase.hpp).   *)
(* Ranks are numbered from 0.  A box is a record [lo, hi] of two integer   *)
(* triples, half-open on every axis.                                       *)
(***************************************************************************)
EXTENDS Integers, Sequences, FiniteSets, TLC

\* ------------------------------------------------------------------ bounds
\* Number of halo operations every rank performs one after the other.
MaxOps == 2
\* ParticleBase: largest argument of one create / globalCreate call.
MaxCreate == 2
\* ParticleBase: number of creation calls per rank.
MaxCalls == 3
\* ParticleBase: largest cluster size.
MaxNodes == 2
\* ParticleAttrib: largest logical count of the attribute before the calls.
MaxCount == 3
\* ParticleAttrib: largest extent of the other attribute and of a hash.
MaxBuf == 2
\* ParticleAttrib: number of destroy / pack / unpack calls.
MaxAttribCalls == 1
\* scatter / gather: largest number of particles on the single-rank layout.
MaxParts == 2
MaxVals == 3
MaxExt == 2
MaxLife == 3
\* FDTD solver: time steps per rank, cells per axis of a classified domain.
MaxSteps == 2
MaxNr == 3

\* ------------------------------------------------- index and domain algebra
Axes == 1..3

Box(lo, hi) == [lo |-> lo, hi |-> hi]

\* NDIndex::grow: every axis widened by n on both sides.
Grow(b, n) == [lo |-> [d \in Axes |-> b.lo[d] - n], hi |-> [d \in Axes |-> b.hi[d] + n]]

Max2(a, b) == IF a >= b THEN a ELSE b
Min2(a, b) == IF a <= b THEN a ELSE b

\* NDIndex::intersect: per-axis intersection (empty when hi <= lo on an axis).
Intersect(a, b) ==
    [lo |-> [d \in Axes |-> Max2(a.lo[d], b.lo[d])],
     hi |-> [d \in Axes |-> Min2(a.hi[d], b.hi[d])]]

IsEmptyBox(b) == \E d \in Axes : b.hi[d] <= b.lo[d]

\* NDIndex::touches.
Touches(a, b) == ~IsEmptyBox(Intersect(a, b))

CellsOf(b) ==
    { <<x, y, z>> : x \in b.lo[1]..(b.hi[1] - 1),
                    y \in b.lo[2]..(b.hi[2] - 1),
                    z \in b.lo[3]..(b.hi[3] - 1) }

\* Translation of a box by a triple.
Shift(b, t) == [lo |-> [d \in Axes |-> b.lo[d] + t[d]], hi |-> [d \in Axes |-> b.hi[d] + t[d]]]

\* ------------------------------------------------------------ field layouts
\* The decompositions the model runs on (FieldLayout::hLocalDomains_m and the
\* ghost depth of the field bound to it).  doms[r + 1] is the box rank r owns.
\*  1: [0,8)^3 split along x between two ranks,
\*  2: a 2 x 2 x 1 decomposition (faces and one edge neighbor per rank),
\*  3: six ranks, cut along x, then y, then z (faces, edges and vertices; two
\*     ranks share one face of a third),
\*  4: a single rank owning [0,4)^3,
\*  5: a single rank owning [-1,1)^3, a local domain that starts below the
\*     mesh origin.
\*  6: [0,4) x [0,3) x [0,3) split along x between two ranks, the mesh of
\*     the solver (no halo operation of its own is run on it).
\* opcap caps the number of operations run on the layout; coarse selects the
\* one-step receive loop (RecvAll) for it.
Layouts ==
    << [nghost |-> 1, coarse |-> FALSE, opcap |-> 3,
        doms |-> << Box(<<0, 0, 0>>, <<4, 8, 8>>), Box(<<4, 0, 0>>, <<8, 8, 8>>) >>],
       [nghost |-> 1, coarse |-> FALSE, opcap |-> 1,
        doms |-> << Box(<<0, 0, 0>>, <<2, 2, 1>>), Box(<<2, 0, 0>>, <<4, 2, 1>>),
                    Box(<<0, 2, 0>>, <<2, 4, 1>>), Box(<<2, 2, 0>>, <<4, 4, 1>>) >>],
       [nghost |-> 1, coarse |-> TRUE, opcap |-> 1,
        doms |-> << Box(<<0, 0, 0>>, <<1, 1, 1>>), Box(<<0, 0, 1>>, <<1, 1, 2>>),
                    Box(<<0, 1, 0>>, <<1, 2, 2>>), Box(<<1, 0, 0>>, <<2, 1, 2>>),
                    Box(<<1, 1, 0>>, <<2, 2, 1>>), Box(<<1, 1, 1>>, <<2, 2, 2>>) >>],
       [nghost |-> 1, coarse |-> FALSE, opcap |-> 3,
        doms |-> << Box(<<0, 0, 0>>, <<4, 4, 4>>) >>],
       [nghost |-> 1, coarse |-> FALSE, opcap |-> 1,
        doms |-> << Box(<<-1, -1, -1>>, <<1, 1, 1>>) >>],
       [nghost |-> 1, coarse |-> FALSE, opcap |-> 0,
        doms |-> << Box(<<0, 0, 0>>, <<2, 3, 3>>), Box(<<2, 0, 0>>, <<4, 3, 3>>) >>] >>

LayoutIds == DOMAIN Layouts

NRanks(L) == Len(Layouts[L].doms)
Ranks(L) == 0..(NRanks(L) - 1)
Dom(L, r) == Layouts[L].doms[r + 1]
Nghost(L) == Layouts[L].nghost

\* The global index domain: the bounding box of the local domains.
GlobalDomain(L) ==
    LET lows(d) == { Dom(L, r).lo[d] : r \in Ranks(L) }
        highs(d) == { Dom(L, r).hi[d] : r \in Ranks(L) }
    IN [lo |-> [d \in Axes |-> CHOOSE m \in lows(d) : \A o \in lows(d) : m <= o],
        hi |-> [d \in Axes |-> CHOOSE m \in highs(d) : \A o \in highs(d) : m >= o]]

\* Global index -> index of rank r's padded view, and back.
ToLocal(L, r) == [d \in Axes |-> Nghost(L) - Dom(L, r).lo[d]]
ToGlobal(L, r) == [d \in Axes |-> Dom(L, r).lo[d] - Nghost(L)]

\* The padded view of rank r, in view coordinates, and its owned part.
ViewBox(L, r) == Shift(Grow(Dom(L, r), Nghost(L)), ToLocal(L, r))
OwnedBox(L, r) == Shift(Dom(L, r), ToLocal(L, r))
ViewCells(L, r) == CellsOf(ViewBox(L, r))
OwnedCells(L, r) == CellsOf(OwnedBox(L, r))
HaloCellsOf(L, r) == ViewCells(L, r) \ OwnedCells(L, r)
GlobalOf(L, r, c) == [d \in Axes |-> c[d] + ToGlobal(L, r)[d]]

\* --------------------------------------------------------- neighbor tables
\* Direction of rank s seen from rank r: per axis -1, 0 (the owned intervals
\* overlap) or +1.
Direction(L, r, s) ==
    [d \in Axes |-> IF Dom(L, s).lo[d] >= Dom(L, r).hi[d] THEN 1
                    ELSE IF Dom(L, s).hi[d] <= Dom(L, r).lo[d] THEN -1 ELSE 0]

NonZero(dir) == Cardinality({ d \in Axes : dir[d] # 0 })

\* Code of a direction, 0..26; the slots of one table are numbered in the
\* order of the codes.
DirCode(dir) == (dir[1] + 1) + 3 * (dir[2] + 1) + 9 * (dir[3] + 1)

AllDirs == { <<a, b, c>> : a \in {-1, 0, 1}, b \in {-1, 0, 1}, c \in {-1, 0, 1} }

\* Slot of a direction inside its table: 0..5 for faces, 0..11 for edges,
\* 0..7 for vertices.
SlotOf(dir) ==
    Cardinality({ o \in AllDirs : NonZero(o) = NonZero(dir) /\ DirCode(o) < DirCode(dir) })

\* Number of slots of the table of phase ph (1 faces, 2 edges, 3 vertices).
SlotCount(ph) == Cardinality({ o \in AllDirs : NonZero(o) = ph })

\* The ranks whose owned box meets rank r's box grown by nghost.
NeighborRanks(L, r) ==
    { s \in Ranks(L) \ {r} : Touches(Grow(Dom(L, r), Nghost(L)), Dom(L, s)) }

\* send range: (remote grown by nghost) /\ ours; recv range: (ours grown by
\* nghost) /\ remote; both in the coordinates of our padded view.
SendRange(L, r, s) ==
    Shift(Intersect(Grow(Dom(L, s), Nghost(L)), Dom(L, r)), ToLocal(L, r))
RecvRange(L, r, s) ==
    Shift(Intersect(Grow(Dom(L, r), Nghost(L)), Dom(L, s)), ToLocal(L, r))

\* One neighbor entry: table slot, position i in the slot's list, partner
\* rank, and the two recorded ranges.
EntrySet(L, r, ph) ==
    { [slot |-> SlotOf(Direction(L, r, s)),
       i |-> Cardinality({ t \in NeighborRanks(L, r) :
                              Direction(L, r, t) = Direction(L, r, s) /\ t < s }),
       rank |-> s,
       send |-> SendRange(L, r, s),
       recv |-> RecvRange(L, r, s)] :
      s \in { t \in NeighborRanks(L, r) : NonZero(Direction(L, r, t)) = ph } }

\* The entries in the order the loops of an exchange visit them: slot by
\* slot, and inside a slot in list order.
RECURSIVE InLoopOrder(_)
InLoopOrder(S) ==
    IF S = {} THEN << >>
    ELSE LET first == CHOOSE e \in S :
                        \A f \in S : e.slot < f.slot \/ (e.slot = f.slot /\ e.i <= f.i)
         IN << first >> \o InLoopOrder(S \ {first})

\* neighbors / neighborsSendRange / neighborsRecvRange of every rank of every
\* layout, per phase.
NeighborTable ==
    [L \in LayoutIds |->
        [r \in Ranks(L) |-> [ph \in 1..3 |-> InLoopOrder(EntrySet(L, r, ph))]]]

Entries(L, r, ph) == NeighborTable[L][r][ph]

\* The vertex table proper: a rank per slot, or the sentinel -1.
VertexNeighbors(L, r) ==
    [v \in 0..(SlotCount(3) - 1) |->
        IF \E e \in EntrySet(L, r, 3) : e.slot = v
        THEN (CHOOSE e \in EntrySet(L, r, 3) : e.slot = v).rank
        ELSE -1]

\* The vertex table slot by slot, with the recorded ranges: the entry of the
\* slot's neighbor, or the sentinel with no range.
VertexTable ==
    [L \in LayoutIds |->
        [r \in Ranks(L) |->
            [n \in 1..SlotCount(3) |->
                IF VertexNeighbors(L, r)[n - 1] >= 0
                THEN CHOOSE e \in EntrySet(L, r, 3) : e.slot = n - 1
                ELSE [slot |-> n - 1, i |-> 0, rank |-> -1,
                      send |-> Box(<<0, 0, 0>>, <<0, 0, 0>>),
                      recv |-> Box(<<0, 0, 0>>, <<0, 0, 0>>)]]]]

\* The cells of rank r's view inside a recorded recv range, and its owned
\* cells inside a recorded send range.
RecvCells(L, r) ==
    { c \in ViewCells(L, r) :
        \E s \in NeighborRanks(L, r) :
            \A d \in Axes : RecvRange(L, r, s).lo[d] <= c[d] /\ c[d] < RecvRange(L, r, s).hi[d] }
SendCells(L, r) ==
    { c \in ViewCells(L, r) :
        \E s \in NeighborRanks(L, r) :
            \A d \in Axes : SendRange(L, r, s).lo[d] <= c[d] /\ c[d] < SendRange(L, r, s).hi[d] }

\* The cell sets of every rank of every layout.
Geometry ==
    [L \in LayoutIds |->
        [r \in Ranks(L) |->
            [view |-> ViewCells(L, r), owned |-> OwnedCells(L, r),
             halo |-> HaloCellsOf(L, r), recv |-> RecvCells(L, r),
             send |-> SendCells(L, r),
             inglobal |-> { c \in HaloCellsOf(L, r) :
                              \A d \in Axes : GlobalDomain(L).lo[d] <= GlobalOf(L, r, c)[d]
                                              /\ GlobalOf(L, r, c)[d] < GlobalDomain(L).hi[d] }]]]

\* ------------------------------------------------------------ program state
VARIABLES
    lay,     \* the layout the cluster runs on (fixed by Init)
    ops,     \* the halo operations every rank calls, in order: "fill" / "acc"
    kind,    \* how the fields were initialised (fixed by Init)
    view,    \* view[r][c]: rank r's padded 3D array
    fd,      \* fd[r]: rank r's scratch buffer fd_m.buffer, element l at l + 1
    net,     \* net[<<s, r>>]: messages sent by s to r, not yet received
    tagctr,  \* tagctr[r][ph]: tags rank r has drawn from family ph
    pc,      \* pc[r]: where rank r is: operation, phase, stage, loop index
    prog,    \* prog[r]: sends, unpacks and waits of the running operation
    nodes,   \* ParticleBase: the cluster size, Ippl::Comm->getNodes()
    pbase,   \* pbase[r]: the ParticleBase of rank r
    pcall,   \* the last call under test: name, rank, argument, base before it
    ncalls,  \* number of ParticleBase calls made so far
    attr,    \* a ParticleAttrib: [count, view], particleCount and dview_m
    temp,    \* the scratch array of attr used by destroy
    abuf,    \* the other ParticleAttrib of pack (destination) / unpack (source)
    acall,   \* the last ParticleAttrib call: name, arguments, state before it
    gop,     \* the particle-grid operation the ranks run: "scatter" / "gather"
    gorigin, \* the mesh origin, the same on every axis, in half mesh spacings
    parts,   \* parts[r]: the particles of rank r, [pos, q], pos in half spacings
    gpc,     \* gpc[r]: the part of the operation rank r is in
    dep,     \* dep[r][p]: atomic adds the scatter iteration of particle p has done
    gout,    \* gout[r][p]: the value gather wrote for particle p, in eighths
    scfg,    \* FDTDSolver: domain_m, the source, the iteration order of the
             \* kernels and what the differential operators do to halos
    pot,     \* pot[r][f]: the three time levels Nm1, N, Np1 of potential f
    sst,     \* sst[r]: time steps done, position in solve, last kernel run
    cls      \* the cells classified so far: index, predicates, value

hvars == << lay, ops, kind, view, fd, net, tagctr, pc, prog >>
avars == << attr, temp, abuf, acall >>
gvars == << gop, gorigin, parts, gpc, dep, gout >>
pvars == << nodes, pbase, pcall, ncalls, avars, gvars >>
svars == << scfg, pot, sst, cls >>
vars == << lay, ops, kind, view, fd, net, tagctr, pc, prog, nodes, pbase, pcall, ncalls,
           attr, temp, abuf, acall, gop, gorigin, parts, gpc, dep, gout,
           scfg, pot, sst, cls >>

Phases == 1..3
Modes == {"fill", "acc"}

\* HALO_TAG_CYCLE: the length of one tag family.
TagCycle == 4

\* ----------------------------------------------------------- initial fields
\* A value that identifies a global index.
GValue(g) == 1 + g[1] + 10 * g[2] + 100 * g[3]

\* The field of scenario S4: phi(i, j, k) = i + 2j + 3k.
Phi(g) == g[1] + 2 * g[2] + 3 * g[3]

\* "mixed": owned cells hold GValue of their global index, halo cells hold a
\*          value that identifies the view cell (never a GValue);
\* "s2":    owned cells hold 0, halo cells hold 7;
\* "s4":    owned cells hold Phi of their global index, halo cells as in
\*          "mixed".
InitView(L, r, kd) ==
    [c \in ViewCells(L, r) |->
        IF c \in OwnedCells(L, r)
        THEN (IF kd = "s2" THEN 0
              ELSE IF kd = "s4" THEN Phi(GlobalOf(L, r, c))
              ELSE GValue(GlobalOf(L, r, c)))
        ELSE (IF kd = "s2" THEN 7 ELSE 2000 + c[1] + 12 * c[2] + 144 * c[3])]

\* ------------------------------------------------------------ pack / unpack
ExtentOf(range, d) == range.hi[d] - range.lo[d]

\* subview.size() and the nrecvs product of the receive loops.
CountOf(range) == ExtentOf(range, 1) * ExtentOf(range, 2) * ExtentOf(range, 3)

\* Mutants of Lin: the stride of k leaves out extent(1); i and j change
\* places.
LinNoStride(i, j, k, e0, e1) == i + j * e0 + k * e0
LinSwapped(i, j, k, e0, e1) == j + i * e1 + k * e0 * e1

\* l = i + j * extent(0) + k * extent(0) * extent(1)
Lin(i, j, k, e0, e1) == i + j * e0 + k * e0 * e1

\* Index triples of the subview of a range.
SubIndex(range) ==
    { <<i, j, k>> : i \in 0..(ExtentOf(range, 1) - 1),
                    j \in 0..(ExtentOf(range, 2) - 1),
                    k \in 0..(ExtentOf(range, 3) - 1) }

LinOf(t, range) == Lin(t[1], t[2], t[3], ExtentOf(range, 1), ExtentOf(range, 2))

InRange(c, range) == \A d \in Axes : range.lo[d] <= c[d] /\ c[d] < range.hi[d]

Zeros(n) == [l \in 1..n |-> 0]

\* Mutant of Realloc: the buffer is reallocated to the requested size on
\* every call.
ReallocExact(buf, n) == Zeros(n)

\* Kokkos::realloc when the buffer is too small: a fresh zeroed allocation.
Realloc(buf, n) == IF Len(buf) < n THEN Zeros(n) ELSE buf

\* Mutant of Pack: no fence, the buffer is read before an iteration of the
\* kernel has written it.
PackUnfenced(v, range, buf) == Realloc(buf, CountOf(range))

\* HaloCells::pack: buffer(l) = subview(i, j, k), then Kokkos::fence().
Pack(v, range, buf) ==
    LET b == Realloc(buf, CountOf(range))
    IN [l \in 1..Len(b) |->
          IF \E t \in SubIndex(range) : LinOf(t, range) = l - 1
          THEN LET t == CHOOSE u \in SubIndex(range) : LinOf(u, range) = l - 1
               IN v[<<range.lo[1] + t[1], range.lo[2] + t[2], range.lo[3] + t[3]>>]
          ELSE b[l]]

\* Mutant of ApplyOp: plus_assign in both modes.
ApplyOpPlus(mode, lhs, rhs) == lhs + rhs

\* The combine operators assign and plus_assign.
ApplyOp(mode, lhs, rhs) == IF mode = "fill" THEN rhs ELSE lhs + rhs

\* HaloCells::unpack<Op>: op(subview(i, j, k), buffer(l)).
Unpack(v, range, buf, mode) ==
    [c \in DOMAIN v |->
        IF InRange(c, range)
        THEN ApplyOp(mode, v[c],
                     buf[1 + LinOf(<<c[1] - range.lo[1], c[2] - range.lo[2],
                                     c[3] - range.lo[3]>>, range)])
        ELSE v[c]]

\* ------------------------------------------------------- range selection
\* Mutants of PackRange: the send range in both modes, and the recv range
\* in both modes.
PackRangeSend(e, mode) == e.send
PackRangeRecv(e, mode) == e.recv

\* INTERNAL_TO_HALO packs the send range, HALO_TO_INTERNAL the recv range.
PackRange(e, mode) == IF mode = "fill" THEN e.send ELSE e.recv

\* Mutants of UnpackRange: the recv range in both modes, and the send range
\* in both modes.
UnpackRangeRecv(e, mode) == e.recv
UnpackRangeSend(e, mode) == e.send

\* INTERNAL_TO_HALO unpacks into the recv range, HALO_TO_INTERNAL into the
\* send range.
UnpackRange(e, mode) == IF mode = "fill" THEN e.recv ELSE e.send

\* --------------------------------------------------------------- messaging
\* Communicate::next_tag: the family's next tag, wrapping after TagCycle.
NextTag(ph, drawn) == << ph, drawn % TagCycle >>

\* The tag the running phase of rank r drew.
CurTag(r) == NextTag(pc[r].phase, tagctr[r][pc[r].phase] - 1)

\* Communicate::recv matches the oldest message of the source with the tag.
Matching(s, r, tag) == { n \in 1..Len(net[<<s, r>>]) : net[<<s, r>>][n].tag = tag }
FirstMatch(s, r, tag) ==
    CHOOSE n \in Matching(s, r, tag) : \A o \in Matching(s, r, tag) : n <= o
RemoveAt(q, n) == SubSeq(q, 1, n - 1) \o SubSeq(q, n + 1, Len(q))

\* recv copies the message into the scratch buffer, grown first if needed.
Deserialize(buf, data, n) ==
    LET b == Realloc(buf, n)
    IN [l \in 1..Len(b) |-> IF l <= n /\ l <= Len(data) THEN data[l] ELSE b[l]]

\* ------------------------------------------------------------ control flow
\* Mutant of PhaseOrder: vertices before edges.
PhaseOrderVertexFirst == << 1, 3, 2 >>

\* accumulateHalo / fillHalo: exchangeFaces, exchangeEdges, exchangeVertices.
PhaseOrder == << 1, 2, 3 >>

NoProg == [sent |-> <<0, 0, 0>>, recvd |-> <<0, 0, 0>>, waited |-> <<FALSE, FALSE, FALSE>>]

\* Where a rank goes when the exchange of step n of PhaseOrder returns.
AfterPhase(p) ==
    IF p.step < Len(PhaseOrder)
    THEN [p EXCEPT !.step = p.step + 1, !.phase = PhaseOrder[p.step + 1],
                   !.stage = "start", !.k = 1]
    ELSE [p EXCEPT !.op = p.op + 1, !.step = 1, !.phase = PhaseOrder[1],
                   !.stage = IF p.op + 1 <= Len(ops) THEN "start" ELSE "done",
                   !.k = 1]

\* Mutant of AfterSends: the wait on the sends comes before the receives.
AfterSendsWait(p) == [p EXCEPT !.stage = "wait", !.k = 1]

\* Mutant of AfterRecvs: the exchange returns without MPI_Waitall.
AfterRecvsNoWait(p) == AfterPhase(p)

\* The stage after the send loop of a phase, and after its receive loop.
AfterSends(p) == [p EXCEPT !.stage = "recv", !.k = 1]
AfterRecvs(p) == [p EXCEPT !.stage = "wait", !.k = 1]

Mode(r) == ops[pc[r].op]

\* Mutant of OnBoundary: rank 0 is taken for the sentinel too.
OnBoundaryOrZero(rank) == rank <= 0

\* neighbors[vertex] < 0: the slot lies on a mesh / physical boundary.
OnBoundary(rank) == rank < 0

\* The entries the loops of the running exchange of rank r work on: the
\* face and edge loops run over the lists of every slot, the vertex loops
\* over the slots and skip the sentinel ones.
MyEntries(r) ==
    IF pc[r].phase = 3
    THEN SelectSeq(VertexTable[lay][r], LAMBDA e : ~OnBoundary(e.rank))
    ELSE Entries(lay, r, pc[r].phase)

\* Mutant of SendIntent: the position i in the slot's list is left out.
SendIntentNoIndex(ph, slot, i) == slot

\* The id of the pooled buffer of a send, counted from the base of its
\* phase (IPPL_HALO_FACE_SEND, IPPL_HALO_EDGE_SEND, IPPL_HALO_VERTEX_SEND):
\* i * groupCount + slot with groupCount = neighbors.size() for faces and
\* edges, the slot for vertices.
SendIntent(ph, slot, i) == IF ph = 3 THEN slot ELSE i * SlotCount(ph) + slot

\* Mutant of SendLoop: isend is given the first tag of the family, not the
\* tag the call drew.
RECURSIVE SendLoopFamilyTag(_, _, _, _, _, _)
SendLoopFamilyTag(r, entries, k, mode, tag, st) ==
    IF k > Len(entries) THEN st
    ELSE LET e == entries[k]
             range == PackRange(e, mode)
             buf == Pack(view[r], range, st.fd)
             msg == [tag |-> << tag[1], 0 >>, data |-> SubSeq(buf, 1, CountOf(range)),
                     sentIn |-> << pc[r].op, pc[r].phase >>]
         IN SendLoopFamilyTag(r, entries, k + 1, mode, tag,
                     [fd |-> buf,
                      net |-> [st.net EXCEPT ![<<r, e.rank>>] = Append(@, msg)]])

\* Mutant of SendLoop: isend ships the whole scratch buffer, not its first
\* nsends elements.
RECURSIVE SendLoopWholeBuffer(_, _, _, _, _, _)
SendLoopWholeBuffer(r, entries, k, mode, tag, st) ==
    IF k > Len(entries) THEN st
    ELSE LET e == entries[k]
             range == PackRange(e, mode)
             buf == Pack(view[r], range, st.fd)
             msg == [tag |-> tag, data |-> buf, sentIn |-> << pc[r].op, pc[r].phase >>]
         IN SendLoopWholeBuffer(r, entries, k + 1, mode, tag,
                     [fd |-> buf,
                      net |-> [st.net EXCEPT ![<<r, e.rank>>] = Append(@, msg)]])

\* The send loop from entry k on: pack into the scratch buffer, isend a copy
\* of it.  st = [fd, net] is threaded through the iterations.  A message is
\* matched by its tag; sentIn records the halo operation and the phase that
\* sent it and is read by no step.
RECURSIVE SendLoop(_, _, _, _, _, _)
SendLoop(r, entries, k, mode, tag, st) ==
    IF k > Len(entries) THEN st
    ELSE LET e == entries[k]
             range == PackRange(e, mode)
             buf == Pack(view[r], range, st.fd)
             msg == [tag |-> tag, data |-> SubSeq(buf, 1, CountOf(range)),
                     sentIn |-> << pc[r].op, pc[r].phase >>]
         IN SendLoop(r, entries, k + 1, mode, tag,
                     [fd |-> buf,
                      net |-> [st.net EXCEPT ![<<r, e.rank>>] = Append(@, msg)]])

\* Mutant of DrawTag: the tag is drawn only when the phase has a neighbor.
DrawTagIfNeighbors(r, entries) ==
    IF Len(entries) = 0 THEN tagctr ELSE [tagctr EXCEPT ![r][pc[r].phase] = @ + 1]

\* int tag = Ippl::Comm->next_tag(...), the first statement of an exchange:
\* the family's counter advances whatever entries the loops will run over.
DrawTag(r, entries) == [tagctr EXCEPT ![r][pc[r].phase] = @ + 1]

\* Entry of an exchange up to its first blocking call: the tag is drawn and
\* the send loop runs (no call in it blocks).  With no neighbor in the phase
\* both loops are empty, no request exists and the exchange returns.
StartPhase(r) ==
    /\ r \in Ranks(lay)
    /\ pc[r].stage = "start"
    /\ tagctr' = DrawTag(r, MyEntries(r))
    /\ LET st == SendLoop(r, MyEntries(r), 1, Mode(r),
                          NextTag(pc[r].phase, tagctr[r][pc[r].phase]),
                          [fd |-> fd[r], net |-> net])
       IN /\ fd' = [fd EXCEPT ![r] = st.fd]
          /\ net' = st.net
    /\ pc' = [pc EXCEPT ![r] = IF Len(MyEntries(r)) = 0 THEN AfterPhase(pc[r])
                                ELSE AfterSends(pc[r])]
    /\ prog' = [prog EXCEPT ![r] =
                  [(IF pc[r].step = 1 THEN NoProg ELSE @)
                      EXCEPT !.sent[pc[r].phase] = Len(MyEntries(r))]]
    /\ UNCHANGED << lay, ops, kind, view >>
    /\ UNCHANGED pvars
    /\ UNCHANGED svars

\* One iteration of the receive loop on st = [view, fd, net]: recv of the
\* oldest matching message into the scratch buffer, then unpack.
RecvOne(r, e, mode, tag, st) ==
    LET range == UnpackRange(e, mode)
        nrecvs == CountOf(range)
        n == FirstMatch(e.rank, r, tag)
        msg == st.net[<<e.rank, r>>][n]
        buf == Deserialize(st.fd, msg.data, nrecvs)
    IN [view |-> Unpack(st.view, range, buf, mode),
        fd |-> buf,
        net |-> [st.net EXCEPT ![<<e.rank, r>>] = RemoveAt(@, n)]]

\* recv blocks until a message of the entry's rank with the phase's tag is
\* there.  A message longer than the receive count is a fatal transport error.
CanRecv(r, e, mode, tag) ==
    /\ Matching(e.rank, r, tag) # {}
    /\ Len(net[<<e.rank, r>>][FirstMatch(e.rank, r, tag)].data) <= CountOf(UnpackRange(e, mode))

RECURSIVE RecvLoop(_, _, _, _, _, _)
RecvLoop(r, entries, k, mode, tag, st) ==
    IF k > Len(entries) THEN st
    ELSE RecvLoop(r, entries, k + 1, mode, tag, RecvOne(r, entries[k], mode, tag, st))

\* One iteration of the receive loop.
Recv(r) ==
    /\ r \in Ranks(lay)
    /\ ~Layouts[lay].coarse
    /\ pc[r].stage = "recv"
    /\ CanRecv(r, MyEntries(r)[pc[r].k], Mode(r), CurTag(r))
    /\ LET st == RecvOne(r, MyEntries(r)[pc[r].k], Mode(r), CurTag(r),
                         [view |-> view[r], fd |-> fd[r], net |-> net])
       IN /\ view' = [view EXCEPT ![r] = st.view]
          /\ fd' = [fd EXCEPT ![r] = st.fd]
          /\ net' = st.net
    /\ prog' = [prog EXCEPT ![r].recvd[pc[r].phase] = @ + 1]
    /\ pc' = [pc EXCEPT ![r] = IF pc[r].k = Len(MyEntries(r)) THEN AfterRecvs(pc[r])
                                ELSE [pc[r] EXCEPT !.k = @ + 1]]
    /\ UNCHANGED << lay, ops, kind, tagctr >>
    /\ UNCHANGED pvars
    /\ UNCHANGED svars

\* The receive loop and the wait that follows it in one step, taken once
\* every message the loop waits for is there.  Used on the layouts marked
\* coarse: a receive only reads the rank's own incoming messages and writes
\* the rank's own view and buffer, and the wait writes nothing, so both
\* commute with the steps of the other ranks, and every run is equivalent to
\* one in which they are adjacent.
RecvAll(r) ==
    /\ r \in Ranks(lay)
    /\ Layouts[lay].coarse
    /\ pc[r].stage = "recv"
    /\ \A k \in 1..Len(MyEntries(r)) : CanRecv(r, MyEntries(r)[k], Mode(r), CurTag(r))
    /\ LET st == RecvLoop(r, MyEntries(r), 1, Mode(r), CurTag(r),
                          [view |-> view[r], fd |-> fd[r], net |-> net])
       IN /\ view' = [view EXCEPT ![r] = st.view]
          /\ fd' = [fd EXCEPT ![r] = st.fd]
          /\ net' = st.net
    /\ prog' = [prog EXCEPT ![r].recvd[pc[r].phase] = Len(MyEntries(r)),
                             ![r].waited[pc[r].phase] = TRUE]
    /\ pc' = [pc EXCEPT ![r] = AfterPhase(pc[r])]
    /\ UNCHANGED << lay, ops, kind, tagctr >>
    /\ UNCHANGED pvars
    /\ UNCHANGED svars

\* Every message rank r sent in the running phase has been received.
Delivered(r) ==
    \A s \in Ranks(lay) : \A n \in 1..Len(net[<<r, s>>]) : net[<<r, s>>][n].tag # CurTag(r)

\* MPI_Waitall on the send requests of the phase.  A send may complete as
\* soon as it is buffered; it is certain to complete once it is received.
Wait(r) ==
    /\ r \in Ranks(lay)
    /\ pc[r].stage = "wait"
    /\ prog' = [prog EXCEPT ![r].waited[pc[r].phase] = TRUE]
    /\ pc' = [pc EXCEPT ![r] = AfterPhase(pc[r])]
    /\ UNCHANGED << lay, ops, kind, view, fd, net, tagctr >>
    /\ UNCHANGED pvars
    /\ UNCHANGED svars

\* ------------------------------------------------------------- particles
\* The attributes of a ParticleBase, in attributes_m order: R and ID, added
\* by the constructor, and one attribute the user added before creating
\* particles.
AttribNames == << "R", "ID", "Q" >>
AttribSet == { AttribNames[n] : n \in DOMAIN AttribNames }

\* Mutant of Resize: a fresh allocation, the old entries are lost.
ResizeFresh(v, n) == [i \in 1..n |-> 0]

\* Kokkos::resize: the old entries are kept, the new ones are zero.
Resize(v, n) == [i \in 1..n |-> IF i <= Len(v) THEN v[i] ELSE 0]

\* ParticleAttrib::create.  An attribute is [count, view]: particleCount and
\* dview_m (entry i at i + 1); this->size() is the extent of the view.
AttribCreate(a, n) ==
    LET current == Len(a.view)
    IN IF current < a.count + n
       THEN [count |-> a.count + n, view |-> Resize(a.view, (current + n) * 2)]
       ELSE a

\* The index range of Kokkos::RangePolicy(begin, end).
RangePolicy(begin, end) == { i \in begin..(end - 1) : TRUE }

\* ParticleBase::create.  The product numNodes_m * (nLocal - localNum_m) is
\* formed in size_t and added to the signed nextID_m: modulo 2^64 that is the
\* exact signed sum, also when nLocal < localNum_m.
BaseCreate(b, nLocal) ==
    LET grown == [a \in AttribSet |-> AttribCreate(b.attrs[a], nLocal)]
        ids == [i \in 1..Len(grown["ID"].view) |->
                  IF (i - 1) \in RangePolicy(b.localNum, nLocal)
                  THEN b.nextID + b.numNodes * (i - 1)
                  ELSE grown["ID"].view[i]]
    IN [b EXCEPT !.attrs = [grown EXCEPT !["ID"].view = ids],
                 !.nextID = b.nextID + b.numNodes * (nLocal - b.localNum),
                 !.localNum = b.localNum + nLocal]

\* Mutant of BaseCreateWithID: numNodes_m is left at its temporary value.
BaseCreateWithIDNoRestore(b, id, nNodes) ==
    [BaseCreate([b EXCEPT !.nextID = id, !.numNodes = 0], 1) EXCEPT !.nextID = b.nextID]

\* ParticleBase::createWithID.
BaseCreateWithID(b, id, nNodes) ==
    LET tmpNextID == b.nextID
        created == BaseCreate([b EXCEPT !.nextID = id, !.numNodes = 0], 1)
    IN [created EXCEPT !.nextID = tmpNextID, !.numNodes = nNodes]

\* ParticleBase::globalCreate on rank `rank`.
BaseGlobalCreate(b, nTotal, rank) ==
    LET nLocal == nTotal \div b.numNodes
        rest == nTotal - nLocal * rank
    IN BaseCreate(b, IF rank < rest THEN nLocal + 1 ELSE nLocal)

\* ParticleBase::ParticleBase on rank r of a cluster of n.
NewBase(r, n) ==
    [localNum |-> 0, nextID |-> r, numNodes |-> n,
     attrs |-> [a \in AttribSet |-> [count |-> 0, view |-> << >>]]]

NoCall == [name |-> "none", rank |-> 0, arg |-> 0, pre |-> NewBase(0, 1)]

Create(r, n) ==
    /\ ncalls < MaxCalls
    /\ r \in 0..(nodes - 1)
    /\ pbase' = [pbase EXCEPT ![r] = BaseCreate(@, n)]
    /\ pcall' = [name |-> "create", rank |-> r, arg |-> n, pre |-> pbase[r]]
    /\ ncalls' = ncalls + 1
    /\ UNCHANGED nodes
    /\ UNCHANGED << avars, gvars >>
    /\ UNCHANGED hvars
    /\ UNCHANGED svars

CreateWithID(r, id) ==
    /\ ncalls < MaxCalls
    /\ r \in 0..(nodes - 1)
    /\ pbase' = [pbase EXCEPT ![r] = BaseCreateWithID(@, id, nodes)]
    /\ pcall' = [name |-> "createWithID", rank |-> r, arg |-> id, pre |-> pbase[r]]
    /\ ncalls' = ncalls + 1
    /\ UNCHANGED nodes
    /\ UNCHANGED << avars, gvars >>
    /\ UNCHANGED hvars
    /\ UNCHANGED svars

\* globalCreate is called with the same total on every rank of the cluster.
GlobalCreate(nTotal) ==
    /\ ncalls < MaxCalls
    /\ pbase' = [r \in 0..(nodes - 1) |-> BaseGlobalCreate(pbase[r], nTotal, r)]
    /\ pcall' = [name |-> "globalCreate", rank |-> 0, arg |-> nTotal, pre |-> pbase[0]]
    /\ ncalls' = ncalls + 1
    /\ UNCHANGED nodes
    /\ UNCHANGED << avars, gvars >>
    /\ UNCHANGED hvars
    /\ UNCHANGED svars

\* ------------------------------------------------------------ reductions
\* The largest value of T; the lowest is its negative.
Highest == 1000

\* Mutant of ReductionIdentity: the reduction starts from the 0.0 that temp
\* was initialised with.
ReductionIdentityZero(fun) == 0

\* The value the reducer Kokkos::fun<T> starts from, and leaves in temp when
\* the range is empty.
ReductionIdentity(fun) ==
    IF fun = "Sum" THEN 0
    ELSE IF fun = "Prod" THEN 1
    ELSE IF fun = "Max" THEN -Highest ELSE Highest

\* The statement op of the macro, as the new value of valL.
ReduceOp(fun, valL, myVal) ==
    IF fun = "Sum" THEN valL + myVal
    ELSE IF fun = "Prod" THEN valL * myVal
    ELSE IF fun = "Max" THEN (IF myVal > valL THEN myVal ELSE valL)
    ELSE (IF myVal < valL THEN myVal ELSE valL)

\* MPI_SUM, MPI_MAX, MPI_MIN and MPI_PROD on two contributions.
MpiOp(fun, a, b) ==
    IF fun = "Sum" THEN a + b
    ELSE IF fun = "Prod" THEN a * b
    ELSE IF fun = "Max" THEN (IF a > b THEN a ELSE b)
    ELSE (IF a < b THEN a ELSE b)

\* Kokkos::parallel_reduce over [i, particleCount) continuing from valL.
RECURSIVE ParallelReduce(_, _, _, _)
ParallelReduce(fun, a, i, valL) ==
    IF i >= a.count THEN valL
    ELSE ParallelReduce(fun, a, i + 1, ReduceOp(fun, valL, a.view[i + 1]))

\* temp after the parallel_reduce of the attribute a.
LocalReduce(fun, a) == ParallelReduce(fun, a, 0, ReductionIdentity(fun))

\* MPI_Allreduce of the contributions temps[0 .. n-1]: every rank receives
\* the combination of all of them.
RECURSIVE AllReduce(_, _, _)
AllReduce(fun, temps, n) ==
    IF n = 1 THEN temps[0]
    ELSE MpiOp(fun, AllReduce(fun, temps, n - 1), temps[n - 1])

\* The method the macro defines for the reducer fun.
MethodOf(fun) ==
    IF fun = "Sum" THEN "sum"
    ELSE IF fun = "Prod" THEN "prod"
    ELSE IF fun = "Max" THEN "max" ELSE "min"

\* sum(), max(), min() or prod() of the attribute Q, called on every rank of
\* the cluster (the all-reduce is collective).  pcall.arg[r] is the value
\* the call returns on rank r.
Reduce(fun) ==
    /\ ncalls < MaxCalls
    /\ LET temps == [r \in 0..(nodes - 1) |-> LocalReduce(fun, pbase[r].attrs["Q"])]
       IN pcall' = [name |-> MethodOf(fun), rank |-> 0,
                    arg |-> [r \in 0..(nodes - 1) |-> AllReduce(fun, temps, nodes)],
                    pre |-> pbase[0]]
    /\ ncalls' = ncalls + 1
    /\ UNCHANGED << nodes, pbase >>
    /\ UNCHANGED << avars, gvars >>
    /\ UNCHANGED hvars
    /\ UNCHANGED svars

\* ------------------------------------------------------- attribute calls
\* Mutant of AttribDestroy: the first kernel copies entry i to temp(i).
AttribDestroyNoIndex(a, tmp, invalidIndex, newIndex, localNum, destroyNum) ==
    LET tmp1 == [j \in 1..Len(tmp) |->
                    IF j <= localNum + destroyNum /\ ~invalidIndex[j]
                    THEN a.view[j] ELSE tmp[j]]
    IN [attr |-> [count |-> localNum,
                  view |-> [i \in 1..Len(a.view) |->
                               IF i <= localNum THEN tmp1[i] ELSE a.view[i]]],
        temp |-> tmp1]

\* ParticleAttrib::destroy.  The first kernel writes temp(newIndex(i)) for
\* the valid i below localNum + destroyNum, the second copies temp back into
\* the first localNum entries.  The entries of newIndex of valid particles
\* are distinct in every call made here, so no two iterations of the first
\* kernel write the same entry of temp.
AttribDestroy(a, tmp, invalidIndex, newIndex, localNum, destroyNum) ==
    LET valid == { i \in 0..(localNum + destroyNum - 1) : ~invalidIndex[i + 1] }
        writers(j) == { i \in valid : newIndex[i + 1] = j }
        tmp1 == [j \in 1..Len(tmp) |->
                    IF writers(j - 1) # {}
                    THEN a.view[(CHOOSE i \in writers(j - 1) : TRUE) + 1]
                    ELSE tmp[j]]
    IN [attr |-> [count |-> localNum,
                  view |-> [i \in 1..Len(a.view) |->
                               IF i <= localNum THEN tmp1[i] ELSE a.view[i]]],
        temp |-> tmp1]

\* Mutant of AttribPack: the hash is read from its end.
AttribPackReversed(a, dst, hash) ==
    LET size == Len(hash)
        grown == IF size > Len(dst.view) THEN Resize(dst.view, size) ELSE dst.view
    IN [dst EXCEPT !.view = [i \in 1..Len(grown) |->
                                IF i <= size THEN a.view[hash[size - i + 1] + 1]
                                ELSE grown[i]]]

\* ParticleAttrib::pack of attribute a into the attribute dst.
AttribPack(a, dst, hash) ==
    LET size == Len(hash)
        grown == IF size > Len(dst.view) THEN Resize(dst.view, size) ELSE dst.view
    IN [dst EXCEPT !.view = [i \in 1..Len(grown) |->
                                IF i <= size THEN a.view[hash[i] + 1] ELSE grown[i]]]

\* Mutant of AttribUnpack: the entries are written from entry 0 on.
AttribUnpackAtZero(a, src, nrecvs) ==
    LET size == Len(a.view)
        grown == IF size < a.count + nrecvs
                 THEN Resize(a.view, (a.count + nrecvs) * 2) ELSE a.view
    IN [count |-> a.count + nrecvs,
        view |-> [i \in 1..Len(grown) |->
                     IF i <= nrecvs THEN src.view[i] ELSE grown[i]]]

\* ParticleAttrib::unpack of nrecvs entries of the attribute src.
AttribUnpack(a, src, nrecvs) ==
    LET size == Len(a.view)
        grown == IF size < a.count + nrecvs
                 THEN Resize(a.view, (a.count + nrecvs) * 2) ELSE a.view
    IN [count |-> a.count + nrecvs,
        view |-> [i \in 1..Len(grown) |->
                     IF a.count < i /\ i <= a.count + nrecvs
                     THEN src.view[i - a.count] ELSE grown[i]]]

\* No ParticleAttrib call made yet.
NoAttribCall ==
    [name |-> "none", n |-> 0, pre |-> [count |-> 0, view |-> << >>],
     prebuf |-> [count |-> 0, view |-> << >>], mask |-> << >>, index |-> << >>, arg |-> 0]

\* The largest logical count the calls let the attribute reach.
MaxSlots == MaxCount + 1

\* The invalid masks and new indices of a destroy that removes destroyNum of
\* the n particles: newIndex maps the valid particles one-to-one onto
\* [0, n - destroyNum) and is -1 for the others.
DestroyArgs(n, destroyNum) ==
    { << [i \in 1..n |-> ix[i] = -1], ix >> :
        ix \in { f \in [1..n -> -1..(n - destroyNum - 1)] :
                   /\ Cardinality({ i \in 1..n : f[i] = -1 }) = destroyNum
                   /\ \A i \in 1..n : \A j \in 1..n :
                         (i # j /\ f[i] # -1) => f[i] # f[j] } }

\* attr.destroy(invalidIndex, newIndex, localNum, destroyNum) on all the
\* particles of the attribute; the scratch array holds localNum entries.
Destroy(destroyNum, mi) ==
    /\ destroyNum <= attr.count
    /\ mi \in DestroyArgs(attr.count, destroyNum)
    /\ attr.count - destroyNum <= Len(temp)
    /\ LET res == AttribDestroy(attr, temp, mi[1], mi[2],
                                attr.count - destroyNum, destroyNum)
       IN /\ attr' = res.attr
          /\ temp' = res.temp
    /\ acall' = [name |-> "destroy", n |-> acall.n + 1, pre |-> attr, prebuf |-> abuf,
                 mask |-> mi[1], index |-> mi[2], arg |-> attr.count - destroyNum]
    /\ UNCHANGED << abuf, gvars, nodes, pbase, pcall, ncalls >>
    /\ UNCHANGED hvars
    /\ UNCHANGED svars

\* attr.pack(&abuf, hash), hash naming particles of attr.
PackTo(hash) ==
    /\ \A i \in 1..Len(hash) : hash[i] < attr.count
    /\ abuf' = AttribPack(attr, abuf, hash)
    /\ acall' = [name |-> "pack", n |-> acall.n + 1, pre |-> attr, prebuf |-> abuf,
                 mask |-> << >>, index |-> hash, arg |-> Len(hash)]
    /\ UNCHANGED << attr, temp, gvars, nodes, pbase, pcall, ncalls >>
    /\ UNCHANGED hvars
    /\ UNCHANGED svars

\* attr.unpack(&abuf, nrecvs), abuf holding at least nrecvs entries.
UnpackFrom(nrecvs) ==
    /\ nrecvs <= Len(abuf.view)
    /\ attr.count + nrecvs <= MaxSlots
    /\ attr' = AttribUnpack(attr, abuf, nrecvs)
    /\ acall' = [name |-> "unpack", n |-> acall.n + 1, pre |-> attr, prebuf |-> abuf,
                 mask |-> << >>, index |-> << >>, arg |-> nrecvs]
    /\ UNCHANGED << temp, abuf, gvars, nodes, pbase, pcall, ncalls >>
    /\ UNCHANGED hvars
    /\ UNCHANGED svars

\* Mutant of AttribSort: entry keepIndex(i) is copied over entry
\* deleteIndex(i) and is not replaced by the old entry.
AttribSortCopy(a, deleteIndex, keepIndex, maxDeleteIndex, destroyNum) ==
    [count |-> a.count - destroyNum,
     view |-> [j \in 1..Len(a.view) |->
                  IF \E i \in 1..maxDeleteIndex : deleteIndex[i] = j - 1
                  THEN a.view[keepIndex[CHOOSE i \in 1..maxDeleteIndex :
                                           deleteIndex[i] = j - 1] + 1]
                  ELSE a.view[j]]]

\* ParticleAttrib::sort.  Iteration i of the kernel exchanges the entries
\* deleteIndex(i) and keepIndex(i) through a local tmp.  The two index
\* arrays are disjoint and free of duplicates in every call made here, so no
\* two iterations touch the same entry and the result does not depend on
\* the order of the iterations.
AttribSort(a, deleteIndex, keepIndex, maxDeleteIndex, destroyNum) ==
    [count |-> a.count - destroyNum,
     view |-> [j \in 1..Len(a.view) |->
                  IF \E i \in 1..maxDeleteIndex : deleteIndex[i] = j - 1
                  THEN a.view[keepIndex[CHOOSE i \in 1..maxDeleteIndex :
                                           deleteIndex[i] = j - 1] + 1]
                  ELSE IF \E i \in 1..maxDeleteIndex : keepIndex[i] = j - 1
                  THEN a.view[deleteIndex[CHOOSE i \in 1..maxDeleteIndex :
                                             keepIndex[i] = j - 1] + 1]
                  ELSE a.view[j]]]

\* The pairs of index arrays of k entries each over the first n particles
\* that sort may be given: no index twice, none in both arrays.
SortArgs(n, k) ==
    { << d, kp >> \in [1..k -> 0..(n - 1)] \X [1..k -> 0..(n - 1)] :
        /\ \A i \in 1..k : \A j \in 1..k : d[i] # kp[j]
        /\ \A i \in 1..k : \A j \in 1..k :
              i # j => (d[i] # d[j] /\ kp[i] # kp[j]) }

\* attr.sort(deleteIndex, keepIndex, maxDeleteIndex, destroyNum) on the
\* particles of the attribute.
Sort(dk, maxDeleteIndex, destroyNum) ==
    /\ Len(dk[1]) = Len(dk[2])
    /\ maxDeleteIndex <= Len(dk[1])
    /\ destroyNum <= attr.count
    /\ attr' = AttribSort(attr, dk[1], dk[2], maxDeleteIndex, destroyNum)
    /\ acall' = [name |-> "sort", n |-> acall.n + 1, pre |-> attr, prebuf |-> abuf,
                 mask |-> dk[1], index |-> dk[2],
                 arg |-> << maxDeleteIndex, destroyNum >>]
    /\ UNCHANGED << temp, abuf, gvars, nodes, pbase, pcall, ncalls >>
    /\ UNCHANGED hvars
    /\ UNCHANGED svars

\* attr.create(n).
CreateAttr(n) ==
    /\ attr.count + n <= MaxSlots
    /\ attr' = AttribCreate(attr, n)
    /\ acall' = [name |-> "create", n |-> acall.n + 1, pre |-> attr, prebuf |-> abuf,
                 mask |-> << >>, index |-> << >>, arg |-> n]
    /\ UNCHANGED << temp, abuf, gvars, nodes, pbase, pcall, ncalls >>
    /\ UNCHANGED hvars
    /\ UNCHANGED svars

\* --------------------------------------------------------------------------
\* Every rank number in use on some layout.
AllRanks == UNION { Ranks(L) : L \in LayoutIds }

OpSeqs(L) == UNION { [1..n -> Modes] : n \in 1..Min2(MaxOps, Layouts[L].opcap) }

StartPc == [op |-> 1, step |-> 1, phase |-> PhaseOrder[1], stage |-> "start", k |-> 1]

\* The fields of a cluster on layout L initialised as kd, before any call.
FieldsInit(L, kd) ==
    /\ lay = L
    /\ kind = kd
    /\ view = [r \in Ranks(L) |-> InitView(L, r, kd)]
    /\ fd = [r \in Ranks(L) |-> << >>]
    /\ net = [p \in Ranks(L) \X Ranks(L) |-> << >>]
    /\ tagctr = [r \in Ranks(L) |-> [ph \in Phases |-> 0]]
    /\ prog = [r \in Ranks(L) |-> NoProg]

\* The particle containers of a cluster of n ranks, before any call.
ParticlesInit(n) ==
    /\ nodes = n
    /\ pbase = [r \in 0..(n - 1) |-> NewBase(r, n)]
    /\ pcall = NoCall
    /\ ncalls = 0

\* ------------------------------------------------------- scatter / gather
\* The mesh spacing is one on every axis.  Positions and the mesh origin are
\* counted in half spacings, so are the fractional index l and the weights
\* whi, wlo; a product of three weights, and with it every field value of a
\* scatter and every value gather writes, is counted in eighths.

\* floor(l), a being l in halves.
FloorHalf(a) == a \div 2

\* Conversion of l to int: toward zero.  a is l in halves.
TruncHalf(a) == IF a >= 0 THEN a \div 2 ELSE -((-a) \div 2)

\* Vector l = (pp(idx) - origin) * invdx + 0.5, in halves.
FracIndex(pos, org) == [d \in Axes |-> pos[d] - org + 1]

\* Vector<int, Dim> index = l.
CellIndex(pos, org) == [d \in Axes |-> TruncHalf(FracIndex(pos, org)[d])]

\* Mutant of Wlo: wlo = 1.0.
WloWhole(pos, org) == [d \in Axes |-> 2]

\* whi = l - index and wlo = 1.0 - whi, in halves.
Whi(pos, org) == [d \in Axes |-> FracIndex(pos, org)[d] - 2 * CellIndex(pos, org)[d]]
Wlo(pos, org) == [d \in Axes |-> 2 - Whi(pos, org)[d]]

\* i, j, k = index - lDom.first() + nghost.
LocalIndex(L, r, pos, org) ==
    [d \in Axes |-> CellIndex(pos, org)[d] - Dom(L, r).lo[d] + Nghost(L)]

\* The eight cells of the kernel body in program order, as offsets from
\* (i, j, k).
Stencil ==
    << <<-1, -1, -1>>, <<-1, -1, 0>>, <<-1, 0, -1>>, <<-1, 0, 0>>,
       << 0, -1, -1>>, << 0, -1, 0>>, << 0, 0, -1>>, << 0, 0, 0>> >>

StencilCell(L, r, pos, org, off) ==
    << LocalIndex(L, r, pos, org)[1] + off[1],
       LocalIndex(L, r, pos, org)[2] + off[2],
       LocalIndex(L, r, pos, org)[3] + off[3] >>

\* Mutant of Weight: whi and wlo change places.
WeightSwapped(pos, org, off) ==
    (IF off[1] = -1 THEN Whi(pos, org)[1] ELSE Wlo(pos, org)[1])
    * (IF off[2] = -1 THEN Whi(pos, org)[2] ELSE Wlo(pos, org)[2])
    * (IF off[3] = -1 THEN Whi(pos, org)[3] ELSE Wlo(pos, org)[3])

\* The weight of the cell at offset off: wlo on an axis with offset -1, whi
\* on an axis with offset 0; in eighths.
Weight(pos, org, off) ==
    (IF off[1] = -1 THEN Wlo(pos, org)[1] ELSE Whi(pos, org)[1])
    * (IF off[2] = -1 THEN Wlo(pos, org)[2] ELSE Whi(pos, org)[2])
    * (IF off[3] = -1 THEN Wlo(pos, org)[3] ELSE Whi(pos, org)[3])

\* Mutant of AtomicAdd: a store of the contribution.
AtomicStore(v, c, x) == [v EXCEPT ![c] = x]

\* Kokkos::atomic_add(&view(c), x).
AtomicAdd(v, c, x) == [v EXCEPT ![c] = @ + x]

\* Mutant of ScatterOrder: the halo operation is called before the kernel.
ScatterOrderHaloFirst == << "halo", "kernel" >>

\* Mutant of GatherOrder: the kernel runs before the halo operation.
GatherOrderKernelFirst == << "kernel", "halo" >>

\* The parts of scatter and of gather in program order: the parallel_for
\* and the halo operation of the field.
ScatterOrder == << "kernel", "halo" >>
GatherOrder == << "halo", "kernel" >>
GridOrder == IF gop = "scatter" THEN ScatterOrder ELSE GatherOrder

\* The part of the operation rank r is in; "entry" before the first and
\* "return" after the last.
GridPart(r) ==
    IF gpc[r] = 0 THEN "entry"
    ELSE IF gpc[r] > Len(GridOrder) THEN "return" ELSE GridOrder[gpc[r]]

\* The sum of a sequence of numbers.
RECURSIVE SumSeq(_)
SumSeq(q) == IF q = << >> THEN 0 ELSE Head(q) + SumSeq(Tail(q))

\* One atomic_add of the scatter iteration of particle p, in program order
\* within the iteration; the iterations of different particles interleave.
Deposit(r, p) ==
    /\ r \in Ranks(lay)
    /\ gop = "scatter"
    /\ GridPart(r) = "kernel"
    /\ p \in DOMAIN parts[r]
    /\ dep[r][p] < Len(Stencil)
    /\ LET pt == parts[r][p]
           off == Stencil[dep[r][p] + 1]
       IN view' = [view EXCEPT ![r] =
                      AtomicAdd(@, StencilCell(lay, r, pt.pos, gorigin, off),
                                Weight(pt.pos, gorigin, off) * pt.q)]
    /\ dep' = [dep EXCEPT ![r][p] = @ + 1]
    /\ UNCHANGED << lay, ops, kind, fd, net, tagctr, pc, prog >>
    /\ UNCHANGED << gop, gorigin, parts, gpc, gout >>
    /\ UNCHANGED << nodes, pbase, pcall, ncalls, avars >>
    /\ UNCHANGED svars

\* The gather iteration of particle p: the weighted sum of the eight cells.
Interpolate(r, p) ==
    /\ r \in Ranks(lay)
    /\ gop = "gather"
    /\ GridPart(r) = "kernel"
    /\ p \in DOMAIN parts[r]
    /\ gout[r][p] = << >>
    /\ LET pt == parts[r][p]
       IN gout' = [gout EXCEPT ![r][p] =
                     << SumSeq([n \in DOMAIN Stencil |->
                           Weight(pt.pos, gorigin, Stencil[n])
                           * view[r][StencilCell(lay, r, pt.pos, gorigin, Stencil[n])]]) >>]
    /\ UNCHANGED hvars
    /\ UNCHANGED << gop, gorigin, parts, gpc, dep >>
    /\ UNCHANGED << nodes, pbase, pcall, ncalls, avars >>
    /\ UNCHANGED svars

\* The part rank r is in is over: every iteration of the kernel has run, or
\* the halo operation has returned.
PartOver(r) ==
    \/ GridPart(r) = "entry"
    \/ /\ GridPart(r) = "kernel"
       /\ \A p \in DOMAIN parts[r] :
             IF gop = "scatter" THEN dep[r][p] = Len(Stencil) ELSE gout[r][p] # << >>
    \/ GridPart(r) = "halo" /\ pc[r].stage = "done"

\* Rank r goes on to the next part of the operation; going on to the halo
\* operation is the call of accumulateHalo / fillHalo.
Advance(r) ==
    /\ r \in Ranks(lay)
    /\ gop # "none"
    /\ gpc[r] <= Len(GridOrder)
    /\ PartOver(r)
    /\ gpc' = [gpc EXCEPT ![r] = @ + 1]
    /\ pc' = IF gpc[r] < Len(GridOrder) /\ GridOrder[gpc[r] + 1] = "halo"
             THEN [pc EXCEPT ![r] = StartPc] ELSE pc
    /\ UNCHANGED << lay, ops, kind, view, fd, net, tagctr, prog >>
    /\ UNCHANGED << gop, gorigin, parts, dep, gout >>
    /\ UNCHANGED << nodes, pbase, pcall, ncalls, avars >>
    /\ UNCHANGED svars

\* ------------------------------------------------- pack / unpack calls
\* HaloCells::pack of the range src of rank 0's view into its scratch buffer.
PackCall(src) ==
    /\ pcall.name = "none"
    /\ fd' = [fd EXCEPT ![0] = Pack(view[0], src, @)]
    /\ pcall' = [name |-> "pack", rank |-> 0, arg |-> [src |-> src, dst |-> src],
                 pre |-> pbase[0]]
    /\ ncalls' = ncalls + 1
    /\ UNCHANGED << lay, ops, kind, view, net, tagctr, pc, prog >>
    /\ UNCHANGED << nodes, pbase >>
    /\ UNCHANGED << avars, gvars >>
    /\ UNCHANGED svars

\* HaloCells::unpack<assign> of the scratch buffer into the range dst, a
\* box with the extents of the packed one.
UnpackCall(dst) ==
    /\ pcall.name = "pack"
    /\ \A d \in Axes : ExtentOf(dst, d) = ExtentOf(pcall.arg.src, d)
    /\ view' = [view EXCEPT ![0] = Unpack(@, dst, fd[0], "fill")]
    /\ pcall' = [pcall EXCEPT !.name = "unpack", !.arg.dst = dst]
    /\ ncalls' = ncalls + 1
    /\ UNCHANGED << lay, ops, kind, fd, net, tagctr, pc, prog >>
    /\ UNCHANGED << nodes, pbase >>
    /\ UNCHANGED << avars, gvars >>
    /\ UNCHANGED svars

\* ------------------------------------------------------------- FDTD solver
\* The potentials FDTDSolver::solve updates, in the order of its kernels:
\* the scalar potential and the components gd = 0, 1, 2 of the vector
\* potential.  The kernels of the components are the kernel of the scalar
\* potential with view_JN(i, j, k)[gd] * mu0 for view_rhoN(i, j, k) / epsilon0.
Potentials == << "phi", "a0", "a1", "a2" >>

\* The constants of solve for c = mu0 = epsilon0 = 1, mesh spacing 2 on every
\* axis and time step 6, so that c dt / h = 3: a1 = 2 (1 - 3 * 9), a2 = a4 =
\* a6 = 9, a8 = (c dt)^2 = 36, beta0 = (6 - 2) / (6 + 2) = 1 / beta0den,
\* beta1 = 2 * 6 * 2 / (6 + 2) = 3, beta2 = -1.  The sources are multiples of
\* 8, which keeps every product with beta0 a whole number.
Coef ==
    [a1 |-> -52, a2 |-> 9, a4 |-> 9, a6 |-> 9, a8 |-> 36,
     beta0den |-> 2, beta1 |-> 3, beta2 |-> -1]

\* nr_m[i] = domain_m[i].length().
Nr(dom) == [d \in Axes |-> ExtentOf(dom, d)]

\* (ig > 0) && (ig < nr_m[0] - 1) for axis d.
Between(g, nr, d) == g[d] > 0 /\ g[d] < nr[d] - 1

\* isInterior; isXmin, isYmin, isZmin (IsMin for d = 1, 2, 3); isXmax,
\* isYmax, isZmax (IsMax).  g is the global index (ig, jg, kg).
IsInterior(g, nr) == \A d \in Axes : Between(g, nr, d)
IsMin(g, nr, d) == g[d] = 0 /\ \A o \in Axes \ {d} : Between(g, nr, o)
IsMax(g, nr, d) == g[d] = nr[d] - 1 /\ \A o \in Axes \ {d} : Between(g, nr, o)

\* The names of the predicates that hold for g.
ClassOf(g, nr) ==
    (IF IsInterior(g, nr) THEN {"interior"} ELSE {})
    \cup { << "min", d >> : d \in { o \in Axes : IsMin(g, nr, o) } }
    \cup { << "max", d >> : d \in { o \in Axes : IsMax(g, nr, o) } }

\* view(i + s, j, k) for d = 1, view(i, j + s, k) for d = 2, ...
Beside(v, c, d, s) == v[[c EXCEPT ![d] = @ + s]]

\* double interior.  p holds the three time levels, rho the source at c.
InteriorValue(p, rho, c) ==
    -p.Nm1[c] + Coef.a1 * p.N[c]
    + Coef.a2 * (Beside(p.N, c, 1, 1) + Beside(p.N, c, 1, -1))
    + Coef.a4 * (Beside(p.N, c, 2, 1) + Beside(p.N, c, 2, -1))
    + Coef.a6 * (Beside(p.N, c, 3, 1) + Beside(p.N, c, 3, -1))
    + Coef.a8 * (-rho)

\* double xmin, ymin, zmin (s = 1) and xmax, ymax, zmax (s = -1): the first
\* order absorbing boundary value of axis d, which reads the next time level
\* of the cell beside c.
AbsorbingValue(p, c, d, s) ==
    ((p.Nm1[c] + Beside(p.Np1, c, d, s)) \div Coef.beta0den)
    + Coef.beta1 * (p.N[c] + Beside(p.N, c, d, s))
    + Coef.beta2 * Beside(p.Nm1, c, d, s)

\* A bool as a factor.
Factor(b) == IF b THEN 1 ELSE 0

\* The value the iteration of view cell c, global index g, writes to the
\* next time level: isInterior * interior + isXmin * xmin + ... + isZmax *
\* zmax.
CellValue(p, rho, c, g, nr) ==
    Factor(IsInterior(g, nr)) * InteriorValue(p, rho, c)
    + SumSeq([d \in Axes |-> Factor(IsMin(g, nr, d)) * AbsorbingValue(p, c, d, 1)])
    + SumSeq([d \in Axes |-> Factor(IsMax(g, nr, d)) * AbsorbingValue(p, c, d, -1)])

\* The cells of the next time level an iteration reads: the six cells beside
\* its own, whatever the predicates say.
ReadsNp1(c) == { [c EXCEPT ![d] = @ + s] : d \in Axes, s \in {-1, 1} }

\* The cells of a box in the order of a serial MDRangePolicy, first index
\* fastest.
BoxSeq(b) ==
    [n \in 1..CountOf(b) |->
        << b.lo[1] + ((n - 1) % ExtentOf(b, 1)),
           b.lo[2] + (((n - 1) \div ExtentOf(b, 1)) % ExtentOf(b, 2)),
           b.lo[3] + ((n - 1) \div (ExtentOf(b, 1) * ExtentOf(b, 2))) >>]

\* The orders in which the iterations of a kernel are run here.
Orders == {"up", "down"}

\* ippl::getRangePolicy<3>(view, nghost): the owned cells of rank r, in the
\* order o.
IterOrder(L, r, o) ==
    LET q == BoxSeq(OwnedBox(L, r))
    IN IF o = "up" THEN q ELSE [n \in 1..Len(q) |-> q[Len(q) + 1 - n]]

\* view_rhoN(i, j, k) / epsilon0 and view_JN(i, j, k)[gd] * mu0 at cell c of
\* rank r: the source cfg.src drives one potential at one global index.
SourceAt(cfg, L, r, f, c) ==
    IF cfg.src.f = f /\ GlobalOf(L, r, c) = cfg.src.g THEN cfg.src.q ELSE 0

\* The kernel of potential f on rank r: its iterations one after the other
\* in the given order, from the n-th on.  An iteration that runs after
\* another one finds that one's value in the next time level.
RECURSIVE KernelFrom(_, _, _, _, _, _, _)
KernelFrom(cfg, L, r, f, p, order, n) ==
    IF n > Len(order) THEN p
    ELSE LET c == order[n]
             x == CellValue(p, SourceAt(cfg, L, r, f, c), c, GlobalOf(L, r, c), Nr(cfg.dom))
         IN KernelFrom(cfg, L, r, f, [p EXCEPT !.Np1[c] = x], order, n + 1)

\* The position of a kernel in solve is the position of its potential in
\* Potentials; then come field_evaluation and the rotation of time levels.
EvalStage == Len(Potentials) + 1
RotateStage == Len(Potentials) + 2

\* One parallel_for of solve on rank r.
KernelStep(r) ==
    /\ r \in DOMAIN sst
    /\ sst[r].t < MaxSteps
    /\ sst[r].stage <= Len(Potentials)
    /\ LET f == Potentials[sst[r].stage]
           res == KernelFrom(scfg, lay, r, f, pot[r][f], IterOrder(lay, r, scfg.order), 1)
       IN /\ pot' = [pot EXCEPT ![r][f] = res]
          /\ sst' = [sst EXCEPT ![r].stage = @ + 1,
                                ![r].last = [f |-> f, pre |-> pot[r][f], post |-> res.Np1]]
    /\ UNCHANGED << scfg, cls >>
    /\ UNCHANGED << hvars, pvars >>

\* The rank that owns the global index g.
OwnerOf(L, g) ==
    CHOOSE s \in Ranks(L) : \A d \in Axes : Dom(L, s).lo[d] <= g[d] /\ g[d] < Dom(L, s).hi[d]

\* fillHalo of level lv of potential f on every rank: each halo cell inside
\* the global domain takes the value of its owner.
Refreshed(pt, L, f, lv) ==
    [r \in Ranks(L) |->
        [c \in ViewCells(L, r) |->
            IF c \in Geometry[L][r].inglobal
            THEN LET g == GlobalOf(L, r, c)
                     s == OwnerOf(L, g)
                 IN pt[s][f][lv][[d \in Axes |-> g[d] + ToLocal(L, s)[d]]]
            ELSE pt[r][f][lv][c]]]

\* field_evaluation: curl(aN_m), curl(aNp1_m) and grad(phiNp1_m).  E and B
\* are outputs and are not kept.  When the differential operators refresh
\* the halos of their argument (cfg.opfill), the ranks do so together.
FieldEvaluation(r) ==
    /\ r \in DOMAIN sst
    /\ sst[r].stage = EvalStage
    /\ IF scfg.opfill
       THEN /\ \A o \in DOMAIN sst : sst[o].stage = EvalStage /\ sst[o].t = sst[r].t
            /\ pot' = [o \in DOMAIN pot |->
                         [f \in DOMAIN pot[o] |->
                             [Nm1 |-> pot[o][f].Nm1,
                              N |-> IF f = "phi" THEN pot[o][f].N
                                    ELSE Refreshed(pot, lay, f, "N")[o],
                              Np1 |-> Refreshed(pot, lay, f, "Np1")[o]]]]
            /\ sst' = [o \in DOMAIN sst |-> [sst[o] EXCEPT !.stage = RotateStage]]
       ELSE /\ pot' = pot
            /\ sst' = [sst EXCEPT ![r].stage = RotateStage]
    /\ UNCHANGED << scfg, cls >>
    /\ UNCHANGED << hvars, pvars >>

\* Field = Field: the owned cells of dst take the values of src, the halo
\* cells of dst keep theirs.
Assign(dst, src, owned) == [c \in DOMAIN dst |-> IF c \in owned THEN src[c] ELSE dst[c]]

\* aNm1_m = aN_m; aN_m = aNp1_m; phiNm1_m = phiN_m; phiN_m = phiNp1_m.
Rotate(r) ==
    /\ r \in DOMAIN sst
    /\ sst[r].stage = RotateStage
    /\ pot' = [pot EXCEPT ![r] =
                 [f \in DOMAIN pot[r] |->
                     LET nm1 == Assign(pot[r][f].Nm1, pot[r][f].N, Geometry[lay][r].owned)
                         n == Assign(pot[r][f].N, pot[r][f].Np1, Geometry[lay][r].owned)
                     IN [Nm1 |-> nm1, N |-> n, Np1 |-> pot[r][f].Np1]]]
    /\ sst' = [sst EXCEPT ![r].t = @ + 1, ![r].stage = 1]
    /\ UNCHANGED << scfg, cls >>
    /\ UNCHANGED << hvars, pvars >>

\* The three time levels of a potential on the view of a single rank that
\* owns the domain dom with one ghost layer; the cells all differ from zero
\* and from each other.
Probe(dom) ==
    LET cells == CellsOf(Box(<<0, 0, 0>>, [d \in Axes |-> ExtentOf(dom, d) + 2]))
        level(base) == [c \in cells |-> base + 2 * (c[1] + 7 * c[2] + 49 * c[3])]
    IN [Nm1 |-> level(1000), N |-> level(2000), Np1 |-> level(3000)]

\* The iteration of the n-th owned cell of a single rank on cfg.dom, run on
\* the probe potential: i, j, k run from nghost on, ig = i + ldom.first() -
\* nghost.
Classify ==
    /\ scfg.src.f = "probe"
    /\ Len(cls) < CountOf(scfg.dom)
    /\ LET c == BoxSeq(Box(<<1, 1, 1>>, [d \in Axes |-> ExtentOf(scfg.dom, d) + 1]))[Len(cls) + 1]
           g == [d \in Axes |-> c[d] + scfg.dom.lo[d] - 1]
       IN cls' = Append(cls, [g |-> g, class |-> ClassOf(g, Nr(scfg.dom)),
                              value |-> CellValue(Probe(scfg.dom), 8, c, g, Nr(scfg.dom))])
    /\ UNCHANGED << scfg, pot, sst >>
    /\ UNCHANGED << hvars, pvars >>

\* No solver.
SolverIdle ==
    /\ scfg = [dom |-> Box(<<0, 0, 0>>, <<0, 0, 0>>), order |-> "up", opfill |-> FALSE,
               src |-> [f |-> "none", g |-> <<0, 0, 0>>, q |-> 0]]
    /\ pot = << >>
    /\ sst = << >>
    /\ cls = << >>

\* No ParticleAttrib under test, and no particle-grid operation.
AttribIdle ==
    /\ attr = [count |-> 0, view |-> << >>]
    /\ temp = << >>
    /\ abuf = [count |-> 0, view |-> << >>]
    /\ acall = NoAttribCall

GridIdle(L) ==
    /\ gop = "none"
    /\ gorigin = 0
    /\ parts = [r \in Ranks(L) |-> << >>]
    /\ gpc = [r \in Ranks(L) |-> 0]
    /\ dep = [r \in Ranks(L) |-> << >>]
    /\ gout = [r \in Ranks(L) |-> << >>]

\* Halo exchange: every rank runs the operations of ops on its field.
Init ==
    /\ \E L \in LayoutIds : \E kd \in {"mixed", "s2"} :
          /\ kd = "s2" => L = 1
          /\ FieldsInit(L, kd)
          /\ ops \in OpSeqs(L)
          /\ pc = [r \in Ranks(L) |-> StartPc]
          /\ GridIdle(L)
    /\ ParticlesInit(1)
    /\ AttribIdle
    /\ SolverIdle

Next ==
    \E r \in AllRanks :
        \/ StartPhase(r)
        \/ Recv(r)
        \/ RecvAll(r)
        \/ Wait(r)

Spec == Init /\ [][Next]_vars

\* Particle creation: the ranks of a cluster call create, createWithID and
\* globalCreate on their containers.
InitParticle ==
    /\ \E n \in 1..MaxNodes : ParticlesInit(n)
    /\ FieldsInit(4, "mixed")
    /\ ops = << >>
    /\ pc = [r \in Ranks(4) |-> [StartPc EXCEPT !.stage = "done"]]
    /\ AttribIdle
    /\ GridIdle(4)
    /\ SolverIdle

NextParticle ==
    \/ \E r \in 0..(MaxNodes - 1) : \E n \in 0..MaxCreate : Create(r, n)
    \/ \E r \in 0..(MaxNodes - 1) : \E id \in {0, 5} : CreateWithID(r, id)
    \/ \E t \in 0..(MaxCreate * MaxNodes) : GlobalCreate(t)

SpecParticle == InitParticle /\ [][NextParticle]_vars

\* Particle creation by create calls only.
NextCreate == \E r \in 0..(MaxNodes - 1) : \E n \in 0..MaxCreate : Create(r, n)

SpecCreate == InitParticle /\ [][NextCreate]_vars

\* The values the particles of a reduction hold.
ValueSet == {-2, 0, 3}

\* The multisets of at most MaxVals values, as non-decreasing sequences.
ValueBags ==
    { q \in UNION { [1..n -> ValueSet] : n \in 0..MaxVals } :
        \A i \in 1..Len(q) : \A j \in 1..Len(q) : i <= j => q[i] <= q[j] }

\* The values of q that the distribution f puts on rank r, in order.
RECURSIVE OnRank(_, _, _)
OnRank(q, f, r) ==
    IF q = << >> THEN << >>
    ELSE LET rest == OnRank(SubSeq(q, 1, Len(q) - 1), f, r)
         IN IF f[Len(q)] = r THEN Append(rest, q[Len(q)]) ELSE rest

\* Reductions: a multiset of values is distributed over the ranks of a
\* cluster; behind its particles every attribute has two more entries that
\* belong to no particle.
InitReduce ==
    /\ \E n \in 1..MaxNodes : \E q \in ValueBags : \E f \in [1..Len(q) -> 0..(n - 1)] :
          /\ nodes = n
          /\ pbase = [r \in 0..(n - 1) |->
                        LET mine == OnRank(q, f, r)
                        IN [localNum |-> Len(mine), nextID |-> r, numNodes |-> n,
                            attrs |-> [a \in AttribSet |->
                                         [count |-> Len(mine),
                                          view |-> IF a = "Q" THEN mine \o << 9, -9 >>
                                                   ELSE Zeros(Len(mine) + 2)]]]]
    /\ pcall = NoCall
    /\ ncalls = 0
    /\ FieldsInit(4, "mixed")
    /\ ops = << >>
    /\ pc = [r \in Ranks(4) |-> [StartPc EXCEPT !.stage = "done"]]
    /\ AttribIdle
    /\ GridIdle(4)
    /\ SolverIdle

NextReduce == \E fun \in {"Sum", "Max", "Min", "Prod"} : Reduce(fun)

SpecReduce == InitReduce /\ [][NextReduce]_vars

\* The particles of the single-rank layout 4: the particle of scenario S3 at
\* (1.5, 1.5, 1.5), one at (1, 1, 1), and one at (0, 1, 3.5) whose cube
\* reaches into the halo.
PartKinds ==
    << [pos |-> <<3, 3, 3>>, q |-> 1], [pos |-> <<2, 2, 2>>, q |-> 1],
       [pos |-> <<0, 2, 7>>, q |-> 2] >>

\* The selections of at most MaxParts of them, in the order of PartKinds.
RECURSIVE Selections(_)
Selections(n) ==
    IF n = 0 THEN { << >> }
    ELSE Selections(n - 1) \cup { Append(q, PartKinds[n]) : q \in Selections(n - 1) }

PartSeqs == { q \in Selections(Len(PartKinds)) : Len(q) >= 1 /\ Len(q) <= MaxParts }

\* scatter and gather.  On layout 4 one rank holds a selection of particles
\* and the mesh origin is 0 or half a spacing; on layout 1 each of the two
\* ranks holds one particle next to the shared face, whose cube reaches
\* into the rank's halo: at (4, 1.5, 1.5) on the face or, for gather, at
\* (3.5, 1.5, 1.5), the position of the cell (3, 1, 1) that rank 0 owns.
\* scatter starts on a zero field, gather on a field whose owned cells hold
\* GValue or Phi.
InitGrid ==
    /\ \E L \in {1, 4} :
          /\ lay = L
          /\ \E o \in {"scatter", "gather"} :
                /\ gop = o
                /\ kind \in (IF o = "scatter" THEN {"zero"} ELSE {"mixed", "s4"})
                /\ ops = IF o = "scatter" THEN << "acc" >> ELSE << "fill" >>
                /\ view = [r \in Ranks(L) |->
                             IF o = "scatter" THEN [c \in ViewCells(L, r) |-> 0]
                             ELSE InitView(L, r, kind)]
          /\ fd = [r \in Ranks(L) |-> << >>]
          /\ net = [p \in Ranks(L) \X Ranks(L) |-> << >>]
          /\ tagctr = [r \in Ranks(L) |-> [ph \in Phases |-> 0]]
          /\ prog = [r \in Ranks(L) |-> NoProg]
          /\ pc = [r \in Ranks(L) |-> [StartPc EXCEPT !.stage = "idle"]]
          /\ IF L = 4
             THEN /\ gorigin \in {0, 1}
                  /\ \E q \in PartSeqs : parts = [r \in Ranks(L) |-> q]
             ELSE /\ gorigin = 0
                  /\ \E x \in (IF gop = "gather" THEN {7, 8} ELSE {8}) :
                        parts = [r \in Ranks(L) |-> << [pos |-> <<x, 3, 3>>, q |-> 1] >>]
          /\ gpc = [r \in Ranks(L) |-> 0]
    /\ dep = [r \in DOMAIN parts |-> [p \in DOMAIN parts[r] |-> 0]]
    /\ gout = [r \in DOMAIN parts |-> [p \in DOMAIN parts[r] |-> << >>]]
    /\ ParticlesInit(1)
    /\ AttribIdle
    /\ SolverIdle

NextGrid ==
    \E r \in AllRanks :
        \/ Advance(r)
        \/ \E p \in 1..Len(PartKinds) : Deposit(r, p)
        \/ \E p \in 1..Len(PartKinds) : Interpolate(r, p)
        \/ StartPhase(r)
        \/ Recv(r)
        \/ Wait(r)

SpecGrid == InitGrid /\ [][NextGrid]_vars

\* The particles of the single-rank layout 5, whose view holds the cells -2
\* to 1 of every axis: one at (-1, -1, -1) with l = -0.5 on every axis, one
\* at (-1.5, 0, 0.5) with l = (-1, 0.5, 1), and one at (0.5, 0.5, 0.5), the
\* centre of cell (0, 0, 0).  The 2x2x2 cells around each of them lie in the
\* view.
LowKinds ==
    << [pos |-> <<-2, -2, -2>>, q |-> 1], [pos |-> <<-3, 0, 1>>, q |-> 2],
       [pos |-> <<1, 1, 1>>, q |-> 3] >>

\* scatter and gather on layout 5 with the mesh origin at 0: the rank holds
\* one or two of these particles.
InitLow ==
    /\ lay = 5
    /\ \E o \in {"scatter", "gather"} :
          /\ gop = o
          /\ kind = (IF o = "scatter" THEN "zero" ELSE "s4")
          /\ ops = IF o = "scatter" THEN << "acc" >> ELSE << "fill" >>
          /\ view = [r \in Ranks(5) |->
                       IF o = "scatter" THEN [c \in ViewCells(5, r) |-> 0]
                       ELSE InitView(5, r, kind)]
    /\ fd = [r \in Ranks(5) |-> << >>]
    /\ net = [p \in Ranks(5) \X Ranks(5) |-> << >>]
    /\ tagctr = [r \in Ranks(5) |-> [ph \in Phases |-> 0]]
    /\ prog = [r \in Ranks(5) |-> NoProg]
    /\ pc = [r \in Ranks(5) |-> [StartPc EXCEPT !.stage = "idle"]]
    /\ gorigin = 0
    /\ \E a \in DOMAIN LowKinds : \E b \in DOMAIN LowKinds :
          /\ a <= b
          /\ parts = [r \in Ranks(5) |->
                        IF a = b THEN << LowKinds[a] >> ELSE << LowKinds[a], LowKinds[b] >>]
    /\ gpc = [r \in Ranks(5) |-> 0]
    /\ dep = [r \in DOMAIN parts |-> [p \in DOMAIN parts[r] |-> 0]]
    /\ gout = [r \in DOMAIN parts |-> [p \in DOMAIN parts[r] |-> << >>]]
    /\ ParticlesInit(1)
    /\ AttribIdle
    /\ SolverIdle

\* The single rank of layout 5 has no partner: every phase of its halo
\* operation ends in StartPhase, without receive or wait.
NextLow ==
    \E r \in Ranks(5) :
        \/ Advance(r)
        \/ \E p \in 1..MaxParts : Deposit(r, p)
        \/ \E p \in 1..MaxParts : Interpolate(r, p)
        \/ StartPhase(r)

SpecLow == InitLow /\ [][NextLow]_vars

\* The solver on layout 6 after initialize(): every potential is zero on the
\* whole view.  One potential is driven by a source at one of the two
\* interior cells of the mesh, (1,1,1) of rank 0 and (2,1,1) of rank 1.
InitSolve ==
    /\ \E o \in Orders : \E b \in BOOLEAN : \E f \in {"phi", "a1"} :
       \E g \in {<<1, 1, 1>>, <<2, 1, 1>>} :
          scfg = [dom |-> GlobalDomain(6), order |-> o, opfill |-> b,
                  src |-> [f |-> f, g |-> g, q |-> 8]]
    /\ pot = [r \in Ranks(6) |->
                [f \in { Potentials[n] : n \in DOMAIN Potentials } |->
                    [lv \in {"Nm1", "N", "Np1"} |-> [c \in ViewCells(6, r) |-> 0]]]]
    /\ sst = [r \in Ranks(6) |-> [t |-> 0, stage |-> 1, last |-> [f |-> "none", pre |-> << >>, post |-> << >>]]]
    /\ cls = << >>
    /\ FieldsInit(6, "mixed")
    /\ ops = << >>
    /\ pc = [r \in Ranks(6) |-> [StartPc EXCEPT !.stage = "done"]]
    /\ GridIdle(6)
    /\ ParticlesInit(1)
    /\ AttribIdle

NextSolve ==
    \E r \in Ranks(6) :
        \/ KernelStep(r)
        \/ FieldEvaluation(r)
        \/ Rotate(r)

SpecSolve == InitSolve /\ [][NextSolve]_vars

\* The classification of the cells of a global domain of 1 to MaxNr cells
\* per axis whose first index is 0 or -1, cell after cell.
InitClass ==
    /\ \E lo \in {0, -1} : \E nx \in 1..MaxNr : \E ny \in 1..MaxNr : \E nz \in 1..MaxNr :
          scfg = [dom |-> Box(<<lo, lo, lo>>, <<lo + nx, lo + ny, lo + nz>>), order |-> "up", opfill |-> FALSE,
                  src |-> [f |-> "probe", g |-> <<0, 0, 0>>, q |-> 8]]
    /\ pot = << >>
    /\ sst = << >>
    /\ cls = << >>
    /\ FieldsInit(4, "mixed")
    /\ ops = << >>
    /\ pc = [r \in Ranks(4) |-> [StartPc EXCEPT !.stage = "done"]]
    /\ GridIdle(4)
    /\ ParticlesInit(1)
    /\ AttribIdle

NextClass == Classify

SpecClass == InitClass /\ [][NextClass]_vars

\* Calls on one ParticleAttrib: an attribute of c particles and capacity
\* cap, a scratch array, and a second attribute that is empty or holds
\* MaxBuf entries, with contents that tell the entries apart.
InitAttrib ==
    /\ \E c \in 0..MaxCount : \E cap \in {c, c + 1} : \E m \in {0, MaxBuf} :
          /\ attr = [count |-> c, view |-> [i \in 1..cap |-> 10 + i]]
          /\ abuf = [count |-> m, view |-> [i \in 1..m |-> 70 + i]]
    /\ temp = [i \in 1..MaxSlots |-> 90 + i]
    /\ acall = NoAttribCall
    /\ ParticlesInit(1)
    /\ FieldsInit(4, "mixed")
    /\ ops = << >>
    /\ pc = [r \in Ranks(4) |-> [StartPc EXCEPT !.stage = "done"]]
    /\ GridIdle(4)
    /\ SolverIdle

NextAttrib ==
    /\ acall.n < MaxAttribCalls
    /\ \/ \E d \in 0..attr.count : \E mi \in DestroyArgs(attr.count, d) : Destroy(d, mi)
       \/ \E hash \in UNION { [1..n -> 0..(attr.count - 1)] : n \in 0..MaxBuf } : PackTo(hash)
       \/ \E n \in 0..MaxBuf : UnpackFrom(n)

SpecAttrib == InitAttrib /\ [][NextAttrib]_vars

\* One sort call on an attribute of c particles and capacity cap whose
\* entries are all different.
InitSort ==
    /\ \E c \in 0..MaxSlots : \E cap \in {c, c + 1} :
          attr = [count |-> c, view |-> [i \in 1..cap |-> 10 + i]]
    /\ abuf = [count |-> 0, view |-> << >>]
    /\ temp = << >>
    /\ acall = NoAttribCall
    /\ ParticlesInit(1)
    /\ FieldsInit(4, "mixed")
    /\ ops = << >>
    /\ pc = [r \in Ranks(4) |-> [StartPc EXCEPT !.stage = "done"]]
    /\ GridIdle(4)
    /\ SolverIdle

NextSort ==
    /\ acall.n = 0
    /\ \E k \in 0..MaxBuf : \E dk \in SortArgs(attr.count, k) :
          \E m \in 0..k : \E d \in 0..attr.count : Sort(dk, m, d)

SpecSort == InitSort /\ [][NextSort]_vars

\* The life of one ParticleAttrib from its construction: up to MaxLife
\* calls of create, unpack, destroy and sort.  destroy removes the first d
\* particles and moves the others down; sort exchanges the first particle
\* with the last one when there are two.
FrontMask(n, d) == << [i \in 1..n |-> i <= d], [i \in 1..n |-> IF i <= d THEN -1 ELSE i - d - 1] >>
EndsPair(n) == IF n >= 2 THEN << << 0 >>, << n - 1 >> >> ELSE << << >>, << >> >>

InitLife ==
    /\ attr = [count |-> 0, view |-> << >>]
    /\ abuf = [count |-> MaxBuf, view |-> [i \in 1..MaxBuf |-> 70 + i]]
    /\ temp = [i \in 1..MaxSlots |-> 90 + i]
    /\ acall = NoAttribCall
    /\ ParticlesInit(1)
    /\ FieldsInit(4, "mixed")
    /\ ops = << >>
    /\ pc = [r \in Ranks(4) |-> [StartPc EXCEPT !.stage = "done"]]
    /\ GridIdle(4)
    /\ SolverIdle

NextLife ==
    /\ acall.n < MaxLife
    /\ \/ \E n \in 0..MaxCreate : CreateAttr(n)
       \/ \E n \in 0..MaxBuf : UnpackFrom(n)
       \/ \E d \in 0..attr.count : Destroy(d, FrontMask(attr.count, d))
       \/ \E d \in 0..attr.count :
             Sort(EndsPair(attr.count), Len(EndsPair(attr.count)[1]), d)

SpecLife == InitLife /\ [][NextLife]_vars

\* The boxes of rank 0's view of layout 4 that pack and unpack are called
\* on: one of three low corners, extents of 1 to MaxExt cells per axis.
Corners == { <<0, 0, 0>>, <<1, 2, 3>>, <<2, 1, 1>> }
WireBoxes ==
    { Box(lo, << lo[1] + e[1], lo[2] + e[2], lo[3] + e[3] >>) :
        lo \in Corners, e \in (1..MaxExt) \X (1..MaxExt) \X (1..MaxExt) }

\* pack and unpack called directly: a view of distinct values, and a
\* scratch buffer that is empty or longer than every box, with old contents.
InitWire ==
    /\ lay = 4
    /\ kind = "mixed"
    /\ view = [r \in Ranks(4) |-> InitView(4, r, "mixed")]
    /\ fd \in { [r \in Ranks(4) |-> << >>],
                 [r \in Ranks(4) |-> [l \in 1..(MaxExt * MaxExt * MaxExt + 1) |-> 50 + l]] }
    /\ net = [p \in Ranks(4) \X Ranks(4) |-> << >>]
    /\ tagctr = [r \in Ranks(4) |-> [ph \in Phases |-> 0]]
    /\ prog = [r \in Ranks(4) |-> NoProg]
    /\ ops = << >>
    /\ pc = [r \in Ranks(4) |-> [StartPc EXCEPT !.stage = "done"]]
    /\ ParticlesInit(1)
    /\ AttribIdle
    /\ GridIdle(4)
    /\ SolverIdle

NextWire ==
    \/ \E src \in WireBoxes : PackCall(src)
    \/ \E dst \in WireBoxes : UnpackCall(dst)

SpecWire == InitWire /\ [][NextWire]_vars

\* ----------------------------------------------------------------- claims
\* Rank r stands between two halo operations, having returned from n of them.
Returned(r, n) ==
    /\ pc[r].op = n + 1
    /\ pc[r].stage \in {"start", "done"}
    /\ pc[r].step = 1

\* C1: Cover.  On fields whose owned cells hold GValue of their global index,
\* once a rank has returned from fillHalo every halo cell of it that lies in
\* the global domain holds GValue of the cell's global index.
C1_FillCoversHalo ==
    \A r \in Ranks(lay) :
        (kind = "mixed" /\ ops[1] = "fill" /\ Returned(r, 1)) =>
            \A c \in Geometry[lay][r].inglobal :
                view[r][c] = GValue(GlobalOf(lay, r, c))

\* C1 witness: scenario S1, both ranks back from fillHalo: rank 0's halo at
\* global x = 4 and rank 1's halo at global x = 3 hold the owners' values.
C1_Witness ==
    /\ lay = 1 /\ kind = "mixed" /\ ops = << "fill" >>
    /\ \A r \in Ranks(lay) : pc[r].stage = "done"
    /\ view[0][<<5, 1, 1>>] = GValue(<<4, 0, 0>>)
    /\ view[1][<<0, 8, 8>>] = GValue(<<3, 7, 7>>)

\* C2: scenario S2.  Owned cells 0, halo cells 7, two ranks split along x:
\* once a rank has returned from accumulateHalo its owned cells on the shared
\* face hold 7 and its other owned cells hold 0.
C2_AccumulateS2 ==
    \A r \in Ranks(lay) :
        (lay = 1 /\ kind = "s2" /\ ops[1] = "acc" /\ Returned(r, 1)) =>
            /\ \A c \in Geometry[lay][r].send : view[r][c] = 7
            /\ \A c \in Geometry[lay][r].owned \ Geometry[lay][r].send : view[r][c] = 0

\* C2 witness: both ranks back from the accumulateHalo of S2, a face cell at 7
\* and an interior cell at 0 on each.
C2_Witness ==
    /\ lay = 1 /\ kind = "s2" /\ ops = << "acc" >>
    /\ \A r \in Ranks(lay) : pc[r].stage = "done"
    /\ view[0][<<4, 1, 1>>] = 7 /\ view[0][<<3, 1, 1>>] = 0
    /\ view[1][<<1, 8, 8>>] = 7 /\ view[1][<<2, 8, 8>>] = 0

\* Phase ph of the running operation of rank r is over: every receive of it
\* is unpacked and its sends are waited on.
PhaseOver(r, ph) ==
    /\ prog[r].sent[ph] = Len(Entries(lay, r, ph))
    /\ prog[r].recvd[ph] = Len(Entries(lay, r, ph))
    /\ Len(Entries(lay, r, ph)) > 0 => prog[r].waited[ph]

\* C3: faces, then edges, then vertices.  A step that issues a send or a
\* receive of the edge or vertex phase is taken only when every earlier
\* phase of the operation is over.
C3_PhasesInOrder ==
    [][\A r \in Ranks(lay) : \A ph \in 2..3 :
          (prog'[r].sent[ph] > prog[r].sent[ph] \/ prog'[r].recvd[ph] > prog[r].recvd[ph])
              => \A q \in 1..(ph - 1) : PhaseOver(r, q)]_vars

\* C3 witness: on the six-rank layout rank 0 has sent its vertex message,
\* with its face and edge phases over.
C3_Witness ==
    /\ lay = 3
    /\ prog[0].sent[3] = 1
    /\ PhaseOver(0, 1) /\ PhaseOver(0, 2)
    /\ prog[0].recvd[1] = 3 /\ prog[0].recvd[2] = 1

\* The entries whose receives the step rank r is about to take unpacks: one
\* entry, or the whole loop on a coarse layout.
StepEntries(r) ==
    IF Layouts[lay].coarse THEN MyEntries(r) ELSE << MyEntries(r)[pc[r].k] >>

\* The message entry e of rank r is about to receive.
Incoming(r, e) == net[<<e.rank, r>>][FirstMatch(e.rank, r, CurTag(r))].data

\* The value that message carries for view cell c of the range.
Carried(r, e, range, c) ==
    Incoming(r, e)[1 + (c[1] - range.lo[1])
                     + (c[2] - range.lo[2]) * ExtentOf(range, 1)
                     + (c[3] - range.lo[3]) * ExtentOf(range, 1) * ExtentOf(range, 2)]

\* Sum of what the entries es[k..] carry for cell c in accumulate mode.
RECURSIVE Contribution(_, _, _, _)
Contribution(r, es, k, c) ==
    IF k > Len(es) THEN 0
    ELSE (IF InRange(c, es[k].send) THEN Carried(r, es[k], es[k].send, c) ELSE 0)
         + Contribution(r, es, k + 1, c)

\* Rank r takes a receive step.
ReceiveStep(r) == pc[r].stage = "recv" /\ pc'[r] # pc[r]

\* C4: the combine operation.  A receive step of fillHalo leaves in every
\* cell of the unpacked range the received value; a receive step of
\* accumulateHalo leaves in every cell its prior value plus what was
\* received for it.  In all three phases.
C4_CombineOp ==
    [][\A r \in Ranks(lay) : ReceiveStep(r) =>
          IF Mode(r) = "fill"
          THEN \A k \in DOMAIN StepEntries(r) : \A c \in CellsOf(StepEntries(r)[k].recv) :
                  view'[r][c] = Carried(r, StepEntries(r)[k], StepEntries(r)[k].recv, c)
          ELSE \A c \in Geometry[lay][r].view :
                  view'[r][c] = view[r][c] + Contribution(r, StepEntries(r), 1, c)]_vars

\* C4 witness: accumulateHalo on the six-rank layout, rank 0 through its
\* vertex phase: its owned cell holds its own value plus the halo values its
\* three face neighbors, its edge neighbor and its vertex neighbor sent.
C4_Witness ==
    /\ lay = 3 /\ kind = "mixed" /\ ops = << "acc" >>
    /\ prog[0].recvd[3] = 1
    /\ view[0][<<1, 1, 1>>] =
          GValue(<<0, 0, 0>>)
          + InitView(3, 1, kind)[<<1, 1, 0>>] + InitView(3, 2, kind)[<<1, 0, 1>>]
          + InitView(3, 3, kind)[<<0, 1, 1>>] + InitView(3, 4, kind)[<<0, 0, 1>>]
          + InitView(3, 5, kind)[<<0, 0, 0>>]

\* Rank r is inside accumulateHalo / fillHalo.
Running(r, mode) == pc[r].op <= Len(ops) /\ ops[pc[r].op] = mode

\* All operations of the run are accumulateHalo.
OnlyAccumulate == \A n \in DOMAIN ops : ops[n] = "acc"

\* C5: accumulateHalo writes no halo cell of the calling rank, and with no
\* write in between every accumulateHalo sends the same halo values: the
\* ones the field was initialised with.
C5_AccumulateKeepsHalo ==
    /\ [][\A r \in Ranks(lay) : (Running(r, "acc") /\ view'[r] # view[r]) =>
             \A c \in Geometry[lay][r].halo : view'[r][c] = view[r][c]]_vars
    /\ [](OnlyAccumulate =>
             \A r \in Ranks(lay) : \A s \in Ranks(lay) : \A n \in 1..Len(net[<<r, s>>]) :
                 { net[<<r, s>>][n].data[l] : l \in 1..Len(net[<<r, s>>][n].data) }
                     = { InitView(lay, r, kind)[c] : c \in CellsOf(RecvRange(lay, r, s)) })

\* C5 witness: S2's layout, rank 1 has the halo message of rank 0's second
\* accumulateHalo waiting, while rank 0's halo still holds 7.
C5_Witness ==
    /\ lay = 1 /\ kind = "s2" /\ ops = << "acc", "acc" >>
    /\ pc[0].op = 2 /\ pc[0].stage = "recv"
    /\ Len(net[<<0, 1>>]) = 1 /\ pc[1].op = 2
    /\ view[0][<<5, 1, 1>>] = 7

\* C6: fillHalo writes no cell outside the recorded recv ranges; the recv
\* ranges being halo sub-slabs, it writes no owned cell.
C6_FillFrame ==
    [][\A r \in Ranks(lay) : (Running(r, "fill") /\ view'[r] # view[r]) =>
          /\ Geometry[lay][r].recv \subseteq Geometry[lay][r].halo
          /\ \A c \in Geometry[lay][r].view \ Geometry[lay][r].recv :
                view'[r][c] = view[r][c]]_vars

\* C6 witness: on the 2 x 2 x 1 layout rank 0 is back from fillHalo with its
\* edge halo cell filled, its owned cells and its boundary halo as before.
C6_Witness ==
    /\ lay = 2 /\ kind = "mixed" /\ ops = << "fill" >>
    /\ pc[0].stage = "done"
    /\ view[0][<<3, 3, 1>>] = GValue(<<2, 2, 0>>)
    /\ \A c \in Geometry[lay][0].view \ Geometry[lay][0].recv :
          view[0][c] = InitView(lay, 0, kind)[c]

AllDone == \A r \in Ranks(lay) : pc[r].stage = "done"

\* The call rank r stands at returns without another rank having to act
\* first: it is no recv whose message is missing and no wait on a send that
\* is not received yet.
NotBlocked(r) ==
    \/ pc[r].stage = "start"
    \/ /\ pc[r].stage = "recv"
       /\ \A k \in DOMAIN StepEntries(r) : CanRecv(r, StepEntries(r)[k], Mode(r), CurTag(r))
    \/ pc[r].stage = "wait" /\ Delivered(r)

\* How far rank r has come: operation, phase, stage and loop index.
Position(r) ==
    ((pc[r].op * 4 + pc[r].step) * 3
        + (IF pc[r].stage = "recv" THEN 1 ELSE IF pc[r].stage = "wait" THEN 2 ELSE 0)) * 16
    + pc[r].k

\* C7: termination.  With every rank calling the same operations, as long
\* as a rank has not returned from all of them some rank stands at a call
\* that is not blocked, no step takes a rank back, every step takes a rank
\* forward, and no rank goes past its last operation: every rank returns.
C7_ExchangeTerminates ==
    /\ [](AllDone \/ \E r \in Ranks(lay) : NotBlocked(r))
    /\ [](\A r \in Ranks(lay) : pc[r].op <= Len(ops) + 1)
    /\ [][/\ \A r \in Ranks(lay) : Position(r)' >= Position(r)
          /\ \E r \in Ranks(lay) : Position(r)' > Position(r)]_vars

\* C7 witness: all six ranks of layout 3 are back.
C7_Witness == lay = 3 /\ AllDone /\ \A r \in Ranks(lay) : prog[r].recvd[1] >= 3

\* C8: ParticleAttrib::create(n), as called by ParticleBase::create(n),
\* raises the logical count of the attribute by exactly n.
C8_CreateGrowsByN ==
    pcall.name = "create" =>
        \A a \in AttribSet :
            pbase[pcall.rank].attrs[a].count = pcall.pre.attrs[a].count + pcall.arg

\* C9: every attribute of a base has the same logical count, and that count
\* is the base's local particle count.
C9_CountsAgree ==
    \A r \in 0..(nodes - 1) : \A a \in AttribSet :
        pbase[r].attrs[a].count = pbase[r].localNum

\* C10: create(n) on a base with local count L and next ID N sets
\* ID[i] = N + i * numNodes for every i in [L, L + n), then next ID to
\* N + n * numNodes and the local count to L + n.
C10_CreateAssignsIds ==
    pcall.name = "create" =>
        LET b == pbase[pcall.rank]
            L == pcall.pre.localNum
            N == pcall.pre.nextID
            n == pcall.arg
        IN /\ \A i \in L..(L + n - 1) :
                 /\ i + 1 <= Len(b.attrs["ID"].view)
                 /\ b.attrs["ID"].view[i + 1] = N + i * pcall.pre.numNodes
           /\ b.nextID = N + n * pcall.pre.numNodes
           /\ b.localNum = L + n

\* The ID stored in slot i of rank r's base.
IdOf(r, i) == pbase[r].attrs["ID"].view[i + 1]

\* The existing particles of the cluster: rank and slot below the local count.
Existing == { rs \in (0..(nodes - 1)) \X (0..(MaxCreate * MaxCalls)) :
                 rs[2] < pbase[rs[1]].localNum }

\* C11: after create calls only, the IDs of all existing particles of the
\* cluster are pairwise distinct (and every existing particle has a slot).
C11_IdsUnique ==
    \A x \in Existing : \A y \in Existing :
        /\ x[2] < Len(pbase[x[1]].attrs["ID"].view)
        /\ (x # y /\ y[2] < Len(pbase[y[1]].attrs["ID"].view))
              => IdOf(x[1], x[2]) # IdOf(y[1], y[2])

\* C12: createWithID(id) creates exactly one particle, in the next free
\* slot, and the ID of that particle is id, whatever the local count was.
C12_CreateWithIdAssignsId ==
    pcall.name = "createWithID" =>
        LET b == pbase[pcall.rank]
            L == pcall.pre.localNum
        IN /\ b.localNum = L + 1
           /\ L + 1 <= Len(b.attrs["ID"].view)
           /\ b.attrs["ID"].view[L + 1] = pcall.arg

\* C13: createWithID leaves nextID_m and numNodes_m as they were, and a
\* create that follows it on the same rank writes into every slot i of its
\* index range the ID it computes from the nextID_m and numNodes_m the base
\* had before createWithID.
C13_CreateWithIdRestores ==
    /\ [](pcall.name = "createWithID" =>
            /\ pbase[pcall.rank].nextID = pcall.pre.nextID
            /\ pbase[pcall.rank].numNodes = pcall.pre.numNodes)
    /\ [][(pcall.name = "createWithID" /\ pcall'.name = "create"
              /\ pcall'.rank = pcall.rank)
            => \A i \in RangePolicy(pcall'.pre.localNum, pcall'.arg) :
                  pbase'[pcall.rank].attrs["ID"].view[i + 1]
                      = pcall.pre.nextID + pcall.pre.numNodes * i]_vars

\* C13 witness: createWithID(5) returned on rank 1 of two, on a base that
\* already held a particle.
C13_Witness ==
    /\ pcall.name = "createWithID"
    /\ pcall.rank = 1
    /\ pcall.arg = 5
    /\ pcall.pre.localNum >= 1
    /\ pbase[1].nextID = pcall.pre.nextID
    /\ pbase[1].numNodes = 2

\* C14: the first globalCreate(T) on a cluster of n ranks gives rank r
\* floor(T / n) + 1 particles if r < T mod n and floor(T / n) otherwise, so
\* the local counts sum to T.
C14_GlobalCreateSplits ==
    (pcall.name = "globalCreate" /\ ncalls = 1) =>
        \A r \in 0..(nodes - 1) :
            pbase[r].localNum
                = (pcall.arg \div nodes) + (IF r < pcall.arg % nodes THEN 1 ELSE 0)

\* The particles a destroy call keeps: the indices below the old count that
\* the mask does not mark.
Kept == { i \in 0..(Len(acall.mask) - 1) : ~acall.mask[i + 1] }

\* C15: after destroy with a mask over the local_n + destroy_n particles and
\* a new_index that maps the valid ones one-to-one onto [0, local_n), entry
\* new_index[i] holds the old entry i for every valid i, the first local_n
\* entries hold every value as often as the valid old entries did, and the
\* logical size is local_n.
C15_DestroyCompacts ==
    acall.name = "destroy" =>
        /\ \A i \in Kept : attr.view[acall.index[i + 1] + 1] = acall.pre.view[i + 1]
        /\ \A x \in { acall.pre.view[i] : i \in DOMAIN acall.pre.view }
                      \cup { attr.view[i] : i \in 1..acall.arg } :
              Cardinality({ i \in 1..acall.arg : attr.view[i] = x })
                  = Cardinality({ i \in Kept : acall.pre.view[i + 1] = x })
        /\ attr.count = acall.arg

\* C15 witness: a destroy that removed a particle and moved a kept one to
\* another index.
C15_Witness ==
    /\ acall.name = "destroy"
    /\ acall.arg >= 2
    /\ acall.arg < Len(acall.mask)
    /\ \E i \in Kept : acall.index[i + 1] # i /\ attr.view[acall.index[i + 1] + 1] # attr.view[i + 1]

\* C16: unpack(src, nrecvs) on an attribute of logical count c leaves the
\* entries [0, c) unchanged, sets entry c + i to src[i] for i in [0, nrecvs),
\* sets the count to c + nrecvs, and has room for all of them.
C16_UnpackAppends ==
    acall.name = "unpack" =>
        LET c == acall.pre.count
        IN /\ attr.count = c + acall.arg
           /\ Len(attr.view) >= c + acall.arg
           /\ Len(attr.view) >= Len(acall.pre.view)
           /\ \A i \in 1..c : attr.view[i] = acall.pre.view[i]
           /\ \A i \in 1..acall.arg : attr.view[c + i] = acall.prebuf.view[i]

\* C16 witness: an unpack of two entries behind one particle that had to
\* reallocate.
C16_Witness ==
    /\ acall.name = "unpack"
    /\ acall.arg = 2
    /\ acall.pre.count >= 1
    /\ Len(acall.pre.view) < acall.pre.count + acall.arg
    /\ attr.view[acall.pre.count + 2] = acall.prebuf.view[2]

\* C17: pack(dst, hash) sets dst[i] = src[hash[i]] for every i in
\* [0, |hash|), dst having at least |hash| entries afterwards and its other
\* entries kept, and leaves the source's entries and count unchanged.
C17_PackGathers ==
    acall.name = "pack" =>
        /\ Len(abuf.view) >= Len(acall.index)
        /\ Len(abuf.view) >= Len(acall.prebuf.view)
        /\ \A i \in 1..Len(acall.index) : abuf.view[i] = acall.pre.view[acall.index[i] + 1]
        /\ \A i \in (Len(acall.index) + 1)..Len(acall.prebuf.view) :
              abuf.view[i] = acall.prebuf.view[i]
        /\ attr = acall.pre

\* C17 witness: a pack of two particles in swapped order into a smaller
\* destination.
C17_Witness ==
    /\ acall.name = "pack"
    /\ acall.index = << 1, 0 >>
    /\ Len(acall.prebuf.view) < 2
    /\ abuf.view[1] = attr.view[2]
    /\ abuf.view[1] # abuf.view[2]

\* The cloud-in-cell weight of a particle for a cell on one axis, in halves:
\* 1 - |x - x_c| / dx where that is positive, x_c the centre of the cell
\* with global index g.
Hat(x, org, g) ==
    LET dist == x - (org + 2 * g + 1)
        away == IF dist >= 0 THEN dist ELSE -dist
    IN IF away >= 2 THEN 0 ELSE 2 - away

\* What the particles of rank r deposit in cell c of the rank's view, by
\* the cloud-in-cell weights, in eighths.
CicDeposit(r, c) ==
    SumSeq([p \in DOMAIN parts[r] |->
              parts[r][p].q
              * Hat(parts[r][p].pos[1], gorigin, GlobalOf(lay, r, c)[1])
              * Hat(parts[r][p].pos[2], gorigin, GlobalOf(lay, r, c)[2])
              * Hat(parts[r][p].pos[3], gorigin, GlobalOf(lay, r, c)[3])])

\* The cube {I-1, I} x {J-1, J} x {K-1, K} of particle p of rank r.
Cube(r, p) ==
    LET at == LocalIndex(lay, r, parts[r][p].pos, gorigin)
    IN { c \in ViewCells(lay, r) : \A d \in Axes : c[d] \in {at[d] - 1, at[d]} }

\* Scenario S3: one rank, domain [0,4)^3, one particle at (1.5, 1.5, 1.5)
\* with charge 1, scatter (and the accumulateHalo in it) has returned.
S3Done ==
    /\ lay = 4
    /\ gop = "scatter"
    /\ parts[0] = << [pos |-> <<3, 3, 3>>, q |-> 1] >>
    /\ GridPart(0) = "return"

\* The view cell of rank 0 with global index g.
CellAt(g) == << g[1] + ToLocal(lay, 0)[1], g[2] + ToLocal(lay, 0)[2], g[3] + ToLocal(lay, 0)[3] >>

Deposited(r, c) ==
    SumSeq([p \in DOMAIN parts[r] |->
              SumSeq([n \in DOMAIN Stencil |->
                        IF n <= dep[r][p]
                           /\ StencilCell(lay, r, parts[r][p].pos, gorigin, Stencil[n]) = c
                        THEN Weight(parts[r][p].pos, gorigin, Stencil[n]) * parts[r][p].q
                        ELSE 0])])

\* C19: in every interleaving of the scatter iterations, at every point of
\* the kernel each cell holds the sum of the contributions of the adds done
\* so far; no contribution is lost, and when all iterations are over the
\* field is the sum of all contributions.
C19_ScatterRaceFree ==
    \A r \in Ranks(lay) :
        (gop = "scatter" /\ GridPart(r) = "kernel") =>
            \A c \in ViewCells(lay, r) : view[r][c] = Deposited(r, c)

\* C19 witness: two particles whose cubes share cell (1,1,1) have both
\* deposited, the second having begun before the first was through.
C19_Witness ==
    /\ lay = 4
    /\ gop = "scatter"
    /\ gorigin = 0
    /\ GridPart(0) = "kernel"
    /\ Len(parts[0]) = 2
    /\ dep[0][1] = 8 /\ dep[0][2] = 8
    /\ view[0][CellAt(<<1, 1, 1>>)] = 9

\* C20: a step of the halo operation of scatter, its call included, is
\* taken by a rank only when all adds of all its particles are done, and no
\* add follows it; a gather iteration reads the field only after the
\* fillHalo of gather has returned.
C20_CouplingOrder ==
    [][\A r \in Ranks(lay) :
          /\ (gop = "scatter" /\ pc'[r] # pc[r]) =>
                 \A p \in DOMAIN parts[r] : dep[r][p] = Len(Stencil)
          /\ (gop = "scatter" /\ dep'[r] # dep[r]) => pc[r].stage = "idle"
          /\ (gop = "gather" /\ gout'[r] # gout[r]) => pc[r].stage = "done"
          /\ (gop = "gather" /\ pc'[r] # pc[r]) =>
                 \A p \in DOMAIN parts[r] : gout[r][p] = << >>]_vars

\* C20 witness: a rank of the two-rank layout is inside the accumulateHalo
\* of scatter, waiting for the message of its neighbor.
C20_Witness ==
    /\ lay = 1
    /\ gop = "scatter"
    /\ pc[0].stage = "recv"
    /\ dep[0][1] = Len(Stencil)

\* The position the mesh assigns to the index g: the cell centre
\* origin + spacing * (g + 0.5), in half spacings.
NodePosition(g, org) == [d \in Axes |-> org + 2 * g[d] + 1]

\* The indices of the global domain of layout L.
GlobalNodes(L) == CellsOf(GlobalDomain(L))

\* C21 (gather round trip, S4): on a field whose cells hold phi(i, j, k) =
\* i + 2j + 3k, a particle that sits at the position of a grid node holds
\* phi of that node once fillHalo and the gather kernel have run; the node
\* may be owned by another rank and reach the particle's rank through the
\* halo.  gather writes eighths.
C21_GatherS4 ==
    (gop = "gather" /\ kind = "s4") =>
        \A r \in Ranks(lay) : \A p \in DOMAIN parts[r] : \A g \in GlobalNodes(lay) :
            (gout[r][p] # << >> /\ parts[r][p].pos = NodePosition(g, gorigin))
                => gout[r][p][1] = 8 * Phi(g)

C21_Witness ==
    /\ gop = "gather" /\ kind = "s4" /\ lay = 1
    /\ parts[1][1].pos = NodePosition(<<3, 1, 1>>, gorigin)
    /\ gout[1][1] = << 8 * Phi(<<3, 1, 1>>) >>

\* The values of all particles of the cluster: the entries below the
\* particle count of Q, rank after rank.
RECURSIVE AllValues(_)
AllValues(n) ==
    IF n = 0 THEN << >>
    ELSE AllValues(n - 1)
         \o SubSeq(pbase[n - 1].attrs["Q"].view, 1, pbase[n - 1].attrs["Q"].count)

RECURSIVE ProdSeq(_)
ProdSeq(q) == IF q = << >> THEN 1 ELSE Head(q) * ProdSeq(Tail(q))

\* The mathematical reduction of a sequence of values; the maximum and the
\* minimum of no value are left open.
IsReduction(name, q, x) ==
    LET S == { q[i] : i \in DOMAIN q }
    IN IF name = "sum" THEN x = SumSeq(q)
       ELSE IF name = "prod" THEN x = ProdSeq(q)
       ELSE IF name = "max" THEN (S # {} => x \in S /\ \A v \in S : x >= v)
       ELSE (S # {} => x \in S /\ \A v \in S : x <= v)

\* C22 (reductions): sum, min, max and prod return on every rank the
\* mathematical reduction over the values of all particles of the cluster,
\* however the particles are distributed over the ranks and also when some
\* ranks hold none; entries at or beyond the particle count take no part.
C22_Reductions ==
    pcall.name \in {"sum", "max", "min", "prod"} =>
        \A r \in 0..(nodes - 1) : IsReduction(pcall.name, AllValues(nodes), pcall.arg[r])

C22_Witness ==
    /\ pcall.name = "max"
    /\ nodes = 2
    /\ pbase[0].attrs["Q"].count = 0
    /\ pbase[1].attrs["Q"].count = 2
    /\ pcall.arg[0] = -2

\* Rank r takes the step that runs the send loop of a phase.
SendStep(r) == pc[r].stage = "start" /\ pc'[r] # pc[r]

\* The entries of the running phase of rank r whose partner is s, in loop
\* order, and the messages the step under way appends for s.
EntriesTo(r, s) == SelectSeq(MyEntries(r), LAMBDA e : e.rank = s)
NewMessages(r, s) == SubSeq(net'[<<r, s>>], Len(net[<<r, s>>]) + 1, Len(net'[<<r, s>>]))

\* The values a view holds in the cells of a range, and the values of a
\* message.
ValuesIn(v, range) == { v[c] : c \in CellsOf(range) }
ValuesOf(data) == { data[l] : l \in 1..Len(data) }

\* C23 (range selection by mode): in every phase, for each neighbor entry,
\* fillHalo sends the cells of the entry's send range and writes only cells
\* of its recv range, accumulateHalo sends the cells of the recv range and
\* writes only cells of the send range: the send loop and the receive loop
\* of a call use opposite tables.
C23_RangesByMode ==
    [][\A r \in Ranks(lay) :
          /\ SendStep(r) =>
                \A s \in Ranks(lay) :
                    /\ Len(NewMessages(r, s)) = Len(EntriesTo(r, s))
                    /\ \A k \in DOMAIN EntriesTo(r, s) :
                          ValuesOf(NewMessages(r, s)[k].data)
                              = ValuesIn(view[r], IF Mode(r) = "fill" THEN EntriesTo(r, s)[k].send
                                                  ELSE EntriesTo(r, s)[k].recv)
          /\ ReceiveStep(r) =>
                \A c \in Geometry[lay][r].view :
                    view'[r][c] # view[r][c] =>
                        \E k \in DOMAIN StepEntries(r) :
                            InRange(c, IF Mode(r) = "fill" THEN StepEntries(r)[k].recv
                                       ELSE StepEntries(r)[k].send)]_vars

\* C23 witness: on the 2 x 2 x 1 layout rank 0 runs accumulateHalo, is past
\* its face receives and has sent the halo cell of its edge to rank 3, its
\* owned face cells having changed.
C23_Witness ==
    /\ lay = 2 /\ kind = "mixed" /\ ops = << "acc" >>
    /\ pc[0].phase = 2 /\ pc[0].stage = "recv"
    /\ \E n \in 1..Len(net[<<0, 3>>]) :
          net[<<0, 3>>][n].data = << InitView(2, 0, kind)[<<3, 3, 1>>] >>
    /\ view[0][<<2, 1, 1>>] # InitView(2, 0, kind)[<<2, 1, 1>>]

\* Rank r is inside the exchange of phase ph, past its send loop.
InsidePhase(r, ph) ==
    pc[r].op <= Len(ops) /\ pc[r].phase = ph /\ pc[r].stage \in {"recv", "wait"}

\* Send requests of phase ph are issued and not waited on.
Outstanding(r, ph) == prog[r].sent[ph] > 0 /\ ~prog[r].waited[ph]

\* C24 (sends before receives, waits before return): a rank that has posted
\* a receive of a phase, or stands at one, has issued every send of the
\* phase; and send requests are outstanding only while the rank is inside
\* the exchange that issued them, so none survives into the next phase or
\* the next halo operation.
C24_SendsThenRecvsThenWait ==
    \A r \in Ranks(lay) : \A ph \in Phases :
        /\ (prog[r].recvd[ph] > 0 \/ InsidePhase(r, ph)) =>
               prog[r].sent[ph] = Len(Entries(lay, r, ph))
        /\ Outstanding(r, ph) => InsidePhase(r, ph)

\* C24 witness: on the 2 x 2 x 1 layout rank 0 has returned from the face
\* exchange with its two sends waited on, and stands at the receive of the
\* edge exchange with the edge send issued.
C24_Witness ==
    /\ lay = 2
    /\ InsidePhase(0, 2) /\ pc[0].stage = "recv"
    /\ prog[0].sent[1] = 2 /\ prog[0].recvd[1] = 2 /\ prog[0].waited[1]
    /\ prog[0].sent[2] = 1 /\ prog[0].recvd[2] = 0 /\ Outstanding(0, 2)

\* The entries of rank r's receive loop that are still to be received from
\* rank s, in loop order, and the messages of s that carry the tag of the
\* running phase of r, oldest first.
PendingFrom(r, s) ==
    SelectSeq(SubSeq(MyEntries(r), pc[r].k, Len(MyEntries(r))), LAMBDA e : e.rank = s)
WaitingFrom(r, s) == SelectSeq(net[<<s, r>>], LAMBDA m : m.tag = CurTag(r))

\* C25 (message counts match): with the neighbor tables of a layout, every
\* message that waits for a receive of the running phase holds exactly as
\* many elements as the receiver computes from the range it will unpack
\* into (the product of the three extents), in fill and in accumulate mode.
C25_CountsMatch ==
    \A r \in Ranks(lay) : pc[r].stage = "recv" =>
        \A s \in Ranks(lay) : \A j \in DOMAIN PendingFrom(r, s) :
            j <= Len(WaitingFrom(r, s)) =>
                Len(WaitingFrom(r, s)[j].data)
                    = ExtentOf(UnpackRange(PendingFrom(r, s)[j], Mode(r)), 1)
                      * ExtentOf(UnpackRange(PendingFrom(r, s)[j], Mode(r)), 2)
                      * ExtentOf(UnpackRange(PendingFrom(r, s)[j], Mode(r)), 3)

\* C25 witness: accumulateHalo on the 2 x 2 x 1 layout: rank 0 stands at its
\* edge receive with the one-element message of rank 3 waiting, after face
\* messages of two elements.
C25_Witness ==
    /\ lay = 2 /\ ops = << "acc" >>
    /\ pc[0].phase = 2 /\ pc[0].stage = "recv"
    /\ Len(WaitingFrom(0, 3)) = 1
    /\ Len(WaitingFrom(0, 3)[1].data) = 1
    /\ Len(fd[0]) = 2

\* The buffer ids of the sends of phase ph of rank r, in loop order.
SendIds(r, ph) ==
    [k \in DOMAIN Entries(lay, r, ph) |->
        SendIntent(ph, Entries(lay, r, ph)[k].slot, Entries(lay, r, ph)[k].i)]

\* C26 (intent-id discipline): the sends a rank has outstanding all belong
\* to one phase, their buffer ids are pairwise distinct, and a rank that is
\* about to request the buffers of a phase has no send outstanding.
C26_IntentIds ==
    \A r \in Ranks(lay) :
        /\ \A ph \in Phases : \A qh \in Phases :
               (Outstanding(r, ph) /\ Outstanding(r, qh)) => ph = qh
        /\ \A ph \in Phases : Outstanding(r, ph) =>
               \A j \in DOMAIN SendIds(r, ph) : \A k \in DOMAIN SendIds(r, ph) :
                   j # k => SendIds(r, ph)[j] # SendIds(r, ph)[k]
        /\ pc[r].stage = "start" => \A ph \in Phases : ~Outstanding(r, ph)

\* C26 witness: on the six-rank layout a rank has its face sends
\* outstanding, two of them to the two neighbors listed in one slot.
C26_Witness ==
    /\ lay = 3
    /\ \E r \in Ranks(lay) :
          /\ Outstanding(r, 1)
          /\ \E j \in DOMAIN Entries(lay, r, 1) : \E k \in DOMAIN Entries(lay, r, 1) :
                /\ Entries(lay, r, 1)[j].slot = Entries(lay, r, 1)[k].slot
                /\ Entries(lay, r, 1)[j].i = 0 /\ Entries(lay, r, 1)[k].i = 1

\* C27 (phase isolation by tag): whatever message of the partner rank the
\* tag of a posted receive matches was sent in the same phase of the same
\* halo operation the receiver is in; messages of another phase or of an
\* earlier or later operation do not match it.
C27_PhaseIsolation ==
    \A r \in Ranks(lay) : pc[r].stage = "recv" =>
        \A s \in Ranks(lay) : \A j \in DOMAIN WaitingFrom(r, s) :
            WaitingFrom(r, s)[j].sentIn = << pc[r].op, pc[r].phase >>

\* C27 witness: two ranks split along x: rank 1 stands at the receive of its
\* first operation while the face messages of the first and of the second
\* operation of rank 0 are both in flight; only the first matches.
C27_Witness ==
    /\ lay = 1
    /\ pc[1].op = 1 /\ pc[1].stage = "recv"
    /\ Len(net[<<0, 1>>]) = 2
    /\ net[<<0, 1>>][2].sentIn = << 2, 1 >>
    /\ Len(WaitingFrom(1, 0)) = 1

\* The buffer holds, at the position of every cell of the range, the value
\* the view holds in that cell.
HoldsRange(buf, v, range) ==
    /\ Len(buf) >= CountOf(range)
    /\ \A t \in SubIndex(range) :
          buf[1 + t[1] + t[2] * ExtentOf(range, 1)
                + t[3] * ExtentOf(range, 1) * ExtentOf(range, 2)]
              = v[<<range.lo[1] + t[1], range.lo[2] + t[2], range.lo[3] + t[3]>>]

\* The messages of rank r for rank s that the running phase of r sent and
\* that are still in flight, oldest first.
InFlight(r, s) == SelectSeq(net[<<r, s>>], LAMBDA m : m.sentIn = << pc[r].op, pc[r].phase >>)

\* The entry whose send issued the j-th of them: the partner receives the
\* oldest first, so the messages in flight are those of the last entries.
EntryOf(r, s, j) == EntriesTo(r, s)[Len(EntriesTo(r, s)) - Len(InFlight(r, s)) + j]

\* The entry the last receive of rank r unpacked.
LastUnpacked(r) ==
    IF pc[r].stage = "wait" THEN MyEntries(r)[Len(MyEntries(r))]
    ELSE MyEntries(r)[pc[r].k - 1]

\* C28 (scratch-buffer safety): the one scratch buffer of a rank is not
\* overwritten while in use.  When the send loop of a phase is through,
\* every message it issued (and the partner has not taken yet) holds the
\* finished pack of its own range, and the scratch buffer holds the last
\* pack; after a receive of fillHalo the cells
\* of the unpacked range hold what the scratch buffer received, before the
\* next receive or the next phase touches the buffer.
C28_ScratchSafe ==
    \A r \in Ranks(lay) :
        /\ (pc[r].stage = "recv" /\ prog[r].recvd[pc[r].phase] = 0) =>
              /\ \A s \in Ranks(lay) :
                    /\ Len(InFlight(r, s)) <= Len(EntriesTo(r, s))
                    /\ \A j \in DOMAIN InFlight(r, s) :
                          HoldsRange(InFlight(r, s)[j].data, view[r],
                                     PackRange(EntryOf(r, s, j), Mode(r)))
              /\ HoldsRange(fd[r], view[r],
                            PackRange(MyEntries(r)[Len(MyEntries(r))], Mode(r)))
        /\ (/\ ~Layouts[lay].coarse
            /\ pc[r].op <= Len(ops)
            /\ pc[r].stage \in {"recv", "wait"}
            /\ prog[r].recvd[pc[r].phase] > 0
            /\ Mode(r) = "fill") =>
              HoldsRange(fd[r], view[r], UnpackRange(LastUnpacked(r), Mode(r)))

\* C28 witness: fillHalo on the 2 x 2 x 1 layout: rank 0 has unpacked the
\* first of its two face messages, its scratch buffer holding the two values
\* now in its halo; its own two face messages were packed one after the
\* other into the same buffer and differ.
C28_Witness ==
    /\ lay = 2 /\ kind = "mixed" /\ ops = << "fill" >>
    /\ pc[0].phase = 1 /\ pc[0].stage = "recv" /\ pc[0].k = 2
    /\ fd[0] = << GValue(<<2, 0, 0>>), GValue(<<2, 1, 0>>) >>
    /\ view[0][<<3, 1, 1>>] = GValue(<<2, 0, 0>>)
    /\ Len(net[<<0, 1>>]) = 1 /\ Len(net[<<0, 2>>]) = 1
    /\ net[<<0, 1>>][1].data # net[<<0, 2>>][1].data

\* C29 (scratch-buffer sizing): no step makes the scratch buffer of a rank
\* shorter; when a send loop is through the buffer is at least as long as
\* every range the loop packed, and when a receive is through it is at
\* least as long as the range received into and as the message received.
C29_ScratchSizing ==
    [][\A r \in Ranks(lay) :
          /\ Len(fd'[r]) >= Len(fd[r])
          /\ SendStep(r) =>
                \A k \in DOMAIN MyEntries(r) :
                    Len(fd'[r]) >= ExtentOf(PackRange(MyEntries(r)[k], Mode(r)), 1)
                                   * ExtentOf(PackRange(MyEntries(r)[k], Mode(r)), 2)
                                   * ExtentOf(PackRange(MyEntries(r)[k], Mode(r)), 3)
          /\ ReceiveStep(r) =>
                \A k \in DOMAIN StepEntries(r) :
                    /\ Len(fd'[r]) >= ExtentOf(UnpackRange(StepEntries(r)[k], Mode(r)), 1)
                                      * ExtentOf(UnpackRange(StepEntries(r)[k], Mode(r)), 2)
                                      * ExtentOf(UnpackRange(StepEntries(r)[k], Mode(r)), 3)
                    /\ Len(fd'[r]) >= Len(Incoming(r, StepEntries(r)[k]))]_vars

\* C29 witness: on the 2 x 2 x 1 layout rank 0 is back from fillHalo: its
\* buffer still has the two elements of the face messages although the
\* edge message packed and received after them has one.
C29_Witness ==
    /\ lay = 2 /\ ops = << "fill" >>
    /\ pc[0].stage = "done"
    /\ prog[0].recvd[2] = 1
    /\ Len(fd[0]) = 2

\* The buffer position the wire format gives cell t of a box.
WirePosition(t, range) ==
    t[1] + t[2] * ExtentOf(range, 1) + t[3] * ExtentOf(range, 1) * ExtentOf(range, 2)

\* C30 (pack / unpack wire format): pack puts cell (i, j, k) of a box with
\* extents (ex, ey, ez) at buffer position l = i + j*ex + k*ex*ey; distinct
\* cells get distinct positions and the positions fill [0, ex*ey*ez); and
\* unpacking the buffer with assign into a box of the same extents leaves in
\* every cell of it the value of the packed cell with the same (i, j, k),
\* and changes no other cell.
C30_WireFormat ==
    /\ [](pcall.name \in {"pack", "unpack"} =>
            /\ \A t \in SubIndex(pcall.arg.src) : \A u \in SubIndex(pcall.arg.src) :
                   t # u => LinOf(t, pcall.arg.src) # LinOf(u, pcall.arg.src)
            /\ { LinOf(t, pcall.arg.src) : t \in SubIndex(pcall.arg.src) }
                   = 0..(CountOf(pcall.arg.src) - 1)
            /\ \A t \in SubIndex(pcall.arg.src) :
                   fd[0][1 + WirePosition(t, pcall.arg.src)]
                       = InitView(4, 0, kind)[<<pcall.arg.src.lo[1] + t[1],
                                                pcall.arg.src.lo[2] + t[2],
                                                pcall.arg.src.lo[3] + t[3]>>])
    /\ [][pcall'.name = "unpack" =>
            \A c \in Geometry[lay][0].view :
                view'[0][c] =
                    IF InRange(c, pcall'.arg.dst)
                    THEN view[0][<<c[1] - pcall'.arg.dst.lo[1] + pcall.arg.src.lo[1],
                                   c[2] - pcall'.arg.dst.lo[2] + pcall.arg.src.lo[2],
                                   c[3] - pcall'.arg.dst.lo[3] + pcall.arg.src.lo[3]>>]
                    ELSE view[0][c]]_vars

\* C30 witness: the 2 x 1 x 2 box at (1, 2, 3) was packed and unpacked into
\* the box at (0, 0, 0): the cell at relative (1, 0, 1) went through buffer
\* position 3 and holds the same value in both boxes.
C30_Witness ==
    /\ pcall.name = "unpack"
    /\ pcall.arg.src = Box(<<1, 2, 3>>, <<3, 3, 5>>)
    /\ pcall.arg.dst = Box(<<0, 0, 0>>, <<2, 1, 2>>)
    /\ fd[0][4] = view[0][<<2, 2, 4>>]
    /\ view[0][<<1, 0, 1>>] = view[0][<<2, 2, 4>>]

\* The vertex slots of rank r that hold a rank, not the sentinel.
RealVertexSlots(r) ==
    { n \in DOMAIN VertexTable[lay][r] : VertexTable[lay][r][n].rank >= 0 }

\* Rank r is past the send loop of the vertex exchange of an operation, and
\* past the whole vertex exchange.
VertexSendsDone(r) ==
    \/ pc[r].op <= Len(ops) /\ pc[r].phase = 3 /\ pc[r].stage \in {"recv", "wait"}
    \/ pc[r].op > 1 /\ pc[r].step = 1 /\ pc[r].stage \in {"start", "done"}
VertexPhaseDone(r) == pc[r].op > 1 /\ pc[r].step = 1 /\ pc[r].stage \in {"start", "done"}

\* C31 (physical-boundary vertex slots): in the vertex phase of fillHalo and
\* of accumulateHalo a rank issues one send and posts one receive per slot
\* that holds a rank and none for a sentinel slot: sends and receives both
\* number the non-sentinel slots, and no receive is posted before the sends.
C31_VertexSentinels ==
    \A r \in Ranks(lay) :
        /\ VertexSendsDone(r) => prog[r].sent[3] = Cardinality(RealVertexSlots(r))
        /\ VertexPhaseDone(r) => prog[r].recvd[3] = Cardinality(RealVertexSlots(r))
        /\ prog[r].recvd[3] <= Cardinality(RealVertexSlots(r))
        /\ prog[r].sent[3] \in {0, Cardinality(RealVertexSlots(r))}

\* C31 witness: accumulateHalo on the six-rank layout: rank 5 is back, with
\* one vertex send and one vertex receive for its one vertex neighbor, rank
\* 0, and seven sentinel slots.
C31_Witness ==
    /\ lay = 3 /\ ops = << "acc" >>
    /\ VertexPhaseDone(5)
    /\ Cardinality(RealVertexSlots(5)) = 1
    /\ VertexTable[lay][5][1].rank = 0
    /\ prog[5].sent[3] = 1 /\ prog[5].recvd[3] = 1


\* C32: after any sequence of create, unpack, destroy and sort calls on a
\* ParticleAttrib the logical particle count is at most the extent of the
\* view, and a create or unpack that reallocated the view left every entry
\* below the previous count as it was.
C32_CountWithinCapacity ==
    /\ attr.count <= Len(attr.view)
    /\ (acall.name \in {"create", "unpack"} /\ Len(attr.view) # Len(acall.pre.view)) =>
          /\ Len(attr.view) > Len(acall.pre.view)
          /\ \A i \in 1..acall.pre.count : attr.view[i] = acall.pre.view[i]

\* C32 witness: the last call is a create that reallocated the view of an
\* attribute whose last particle was unpacked.
C32_Witness ==
    /\ acall.name = "create"
    /\ acall.n = MaxLife
    /\ acall.pre.count >= 1
    /\ Len(attr.view) > Len(acall.pre.view)
    /\ attr.view[acall.pre.count] = 71
    /\ attr.count = acall.pre.count + acall.arg

\* C33: sort with disjoint, duplicate-free index arrays exchanges entry
\* delete_indices[i] with entry keep_indices[i] for every i < max_delete,
\* leaves every other entry unchanged, keeps every value as often as it was
\* stored, and lowers the logical size by destroy_n.
C33_SortSwaps ==
    acall.name = "sort" =>
        LET d == acall.mask
            k == acall.index
            m == acall.arg[1]
            touched == { d[i] + 1 : i \in 1..m } \cup { k[i] + 1 : i \in 1..m }
        IN /\ Len(attr.view) = Len(acall.pre.view)
           /\ \A i \in 1..m : /\ attr.view[d[i] + 1] = acall.pre.view[k[i] + 1]
                                /\ attr.view[k[i] + 1] = acall.pre.view[d[i] + 1]
           /\ \A j \in DOMAIN acall.pre.view :
                 j \notin touched => attr.view[j] = acall.pre.view[j]
           /\ \A x \in { acall.pre.view[j] : j \in DOMAIN acall.pre.view } :
                 Cardinality({ j \in DOMAIN attr.view : attr.view[j] = x })
                     = Cardinality({ j \in DOMAIN acall.pre.view : acall.pre.view[j] = x })
           /\ attr.count = acall.pre.count - acall.arg[2]

\* C33 witness: a sort given two pairs that exchanged only the first and
\* removed two particles.
C33_Witness ==
    /\ acall.name = "sort"
    /\ Len(acall.mask) = 2
    /\ acall.arg = << 1, 2 >>
    /\ attr.view[acall.mask[1] + 1] = acall.pre.view[acall.index[1] + 1]
    /\ attr.view[acall.mask[1] + 1] # acall.pre.view[acall.mask[1] + 1]
    /\ attr.view[acall.mask[2] + 1] = acall.pre.view[acall.mask[2] + 1]
    /\ attr.count = acall.pre.count - 2

\* The scatter or gather iteration of particle p of rank r has begun.
KernelRan(r, p) ==
    \/ gop = "scatter" /\ dep[r][p] > 0
    \/ gop = "gather" /\ gout[r][p] # << >>

\* C34: for every particle whose 2x2x2 stencil around floor(l) lies in the
\* padded view, positions of negative l included, the scatter and gather
\* iterations use idx = floor(l) on every axis, w_hi = l - idx lies in [0, 1)
\* and w_lo = 1 - w_hi in (0, 1] (0 or 1, and 1 or 2, in halves).
C34_FloorIndex ==
    \A r \in Ranks(lay) : \A p \in DOMAIN parts[r] :
        LET pos == parts[r][p].pos
        IN (KernelRan(r, p)
            /\ \A d \in Axes :
                  LET at == FloorHalf(FracIndex(pos, gorigin)[d]) - Dom(lay, r).lo[d] + Nghost(lay)
                  IN at - 1 >= ViewBox(lay, r).lo[d] /\ at < ViewBox(lay, r).hi[d])
           => \A d \in Axes :
                 /\ CellIndex(pos, gorigin)[d] = FloorHalf(FracIndex(pos, gorigin)[d])
                 /\ Whi(pos, gorigin)[d] \in {0, 1}
                 /\ Wlo(pos, gorigin)[d] \in {1, 2}

\* The sum of the cells of rank r's view, halo cells included.
ViewSum(r) ==
    LET b == ViewBox(lay, r)
    IN SumSeq([i \in 1..ExtentOf(b, 1) |->
          SumSeq([j \in 1..ExtentOf(b, 2) |->
             SumSeq([k \in 1..ExtentOf(b, 3) |->
                view[r][<< b.lo[1] + i - 1, b.lo[2] + j - 1, b.lo[3] + k - 1 >>]])])])

\* C37: the eight weights of every particle sum to 1 (8 eighths), and when
\* the scatter kernel of a rank is over, before the halo accumulation, the
\* cells of its view, which started at zero, sum to the sum of the values of
\* its particles.
C37_ScatterConserves ==
    \A r \in Ranks(lay) :
        /\ \A p \in DOMAIN parts[r] :
              SumSeq([n \in DOMAIN Stencil |-> Weight(parts[r][p].pos, gorigin, Stencil[n])]) = 8
        /\ (gop = "scatter" /\ GridPart(r) = "kernel" /\ PartOver(r)) =>
              ViewSum(r) = 8 * SumSeq([p \in DOMAIN parts[r] |-> parts[r][p].q])

\* C37 witness: the kernel is over for two particles with weights of one
\* half, which together deposited the value 3.
C37_Witness ==
    /\ gop = "scatter"
    /\ GridPart(0) = "kernel"
    /\ PartOver(0)
    /\ Len(parts[0]) = 2
    /\ \A p \in DOMAIN parts[0] : \E d \in Axes : Whi(parts[0][p].pos, gorigin)[d] \notin {0, 2}
    /\ ViewSum(0) = 24

\* The number of exchanges the running operation of rank r has entered.
StepsBegun(r) == IF pc[r].stage \in {"recv", "wait"} THEN pc[r].step ELSE pc[r].step - 1

\* The number of exchanges of phase ph rank r has entered since the start.
Drawn(r, ph) ==
    (pc[r].op - 1) + (IF \E n \in 1..StepsBegun(r) : PhaseOrder[n] = ph THEN 1 ELSE 0)

\* C38: every fillHalo and accumulateHalo draws one tag of each of the face,
\* edge and vertex families, also in a phase in which the rank has no
\* neighbor: a rank's count of drawn tags of a family is the number of
\* exchanges of that phase it has entered, and two ranks inside the same
\* phase of the same operation hold equal tags.
C38_TagLockstep ==
    /\ \A r \in Ranks(lay) : \A ph \in Phases : tagctr[r][ph] = Drawn(r, ph)
    /\ \A r \in Ranks(lay) : \A o \in Ranks(lay) :
          (/\ pc[r].op = pc[o].op /\ pc[r].phase = pc[o].phase
           /\ pc[r].stage \in {"recv", "wait"} /\ pc[o].stage \in {"recv", "wait"})
              => CurTag(r) = CurTag(o)

\* C38 witness: rank 0 of the 2 x 2 x 1 layout, which has no vertex
\* neighbor, has returned from an operation and drew a vertex tag in it,
\* while rank 3 is still inside the edge exchange.
C38_Witness ==
    /\ lay = 2
    /\ \A n \in DOMAIN VertexTable[lay][0] : VertexTable[lay][0][n].rank < 0
    /\ pc[0].op = 2
    /\ tagctr[0] = [ph \in Phases |-> 1]
    /\ pc[3].op = 1 /\ pc[3].phase = 2 /\ tagctr[3][3] = 0

\* C35: the values a kernel of solve writes to the next time level do not
\* depend on the order of its iterations, and no iteration reads a cell of
\* the next time level that another iteration of the kernel writes.
C35_StencilDeterministic ==
    \A r \in DOMAIN sst :
        sst[r].last.f # "none" =>
            /\ \A o \in Orders :
                  KernelFrom(scfg, lay, r, sst[r].last.f, sst[r].last.pre,
                             IterOrder(lay, r, o), 1).Np1 = sst[r].last.post
            /\ \A c \in Geometry[lay][r].owned :
                  ReadsNp1(c) \cap (Geometry[lay][r].owned \ {c}) = {}

\* The halo cells of rank r that the stencil of an owned cell reads: the
\* cells beside an owned cell, inside the global domain.
StencilHalo(L, r) ==
    { c \in Geometry[L][r].inglobal :
        \E d \in Axes : \E s \in {-1, 1} : [c EXCEPT ![d] = @ + s] \in Geometry[L][r].owned }

\* C36: when a rank is about to run the kernel of a potential, every halo
\* cell of the current time level that the stencil reads holds what the
\* owner of the cell stores in that time level at the same time step.
C36_HaloFresh ==
    \A r \in DOMAIN sst :
        (sst[r].t < MaxSteps /\ sst[r].stage <= Len(Potentials)) =>
            \A c \in StencilHalo(lay, r) :
                LET g == GlobalOf(lay, r, c)
                    s == OwnerOf(lay, g)
                    f == Potentials[sst[r].stage]
                IN sst[s].t = sst[r].t =>
                      pot[r][f].N[c] = pot[s][f].N[[d \in Axes |-> g[d] + ToLocal(lay, s)[d]]]

\* The number of coordinates of g on the boundary of the global domain.
OnGlobalBoundary(g, dom) ==
    Cardinality({ d \in Axes : g[d] = dom.lo[d] \/ g[d] = dom.hi[d] - 1 })

\* C40: for every owned cell at most one of the seven predicates holds; a
\* cell with two or more coordinates on the boundary of the global domain
\* satisfies none and is assigned 0, every other cell satisfies exactly one.
C40_CellClasses ==
    \A n \in DOMAIN cls :
        /\ Cardinality(cls[n].class) <= 1
        /\ OnGlobalBoundary(cls[n].g, scfg.dom) >= 2 =>
              (cls[n].class = {} /\ cls[n].value = 0)
        /\ OnGlobalBoundary(cls[n].g, scfg.dom) < 2 => Cardinality(cls[n].class) = 1

=========================================================================
